---- MODULE Spec2Model ----
(***************************************************************************)
(* Disemb-Arc: the tree document (spaces -> folders -> bookmarks), the     *)
(* mutation handlers of app.js and the host sync engine of sync.js.        *)
(*                                                                         *)
(* JavaScript objects are modelled as a heap: an address names one object, *)
(* and an array (box.items, item.children, the boxes array) is the `kids`  *)
(* sequence of the object that owns it.  A handler that mutates an object  *)
(* in place is therefore seen by every flow that holds the same object,    *)
(* exactly as in the source.                                               *)
(***************************************************************************)
EXTENDS Integers, Sequences, FiniteSets, TLC

\* ---------------------------------------------------------------- bounds
MaxAddr == 9          \* heap capacity (objects alive at once)
MaxIds == 4           \* identities generateId() hands out in one run
MaxHost == 6          \* largest identity the host store hands out
TreeEdits == 5        \* user intents in one run of the tree specification
SyncEdits == 2        \* user intents and external host changes in one run of
                      \* the sync specification
LocalEdits == 3       \* user intents in one run of the local-edit specification
MaxPasses == 2        \* push passes in flight at once
IntentEdits == 2      \* user intents in one run of the intents specification
PullEdits == 2        \* user intents and external host changes in one run of
                      \* the two-way specification
OfflineEdits == 2     \* user intents in one run of the offline specification
ImportEdits == 2      \* imports in one run of the import specification
MaxImportIds == 12    \* identities generateId() hands out in the import specification
StoreEdits == 3       \* intents and reopenings in one run of the storage specification
DurableEdits == 2     \* renames and removals in one run of the durability specification
RetryEdits == 4       \* renames and removals in the browser in one run of the retry specification

\* ------------------------------------------------------------- constants
BOOKMARKS_BAR_ID == 1 \* the fixed host root under which spaces are mirrored

Null == 0             \* JS null (no object / no identity / no chromeId)
MAX_SAFE_INTEGER == 1000 \* stands for Number.MAX_SAFE_INTEGER: above every lastChangeDate
Undef == -1           \* JS undefined (findParentById: not found)

Addr == 1..MaxAddr
Names == {"a", "b"}
Urls == {"u", "v"}
Positions == {"before", "after"}

VARIABLES
  heap,             \* Addr -> object
  boxes,            \* app.js `boxes`: address of the array of spaces
  expandedSpaceId,  \* app.js `expandedSpaceId`
  timeoutId,        \* utils.js debounce: the number of timers that are pending
  burst,            \* save() calls made since a debounce timer last fired
  nextId,           \* identities handed out so far by generateId()
  isSyncing,        \* sync.js `isSyncing`
  passes,           \* push passes in flight (syncAllSpacesToChrome calls)
  dels,             \* onDelete / onDeleteItem calls awaiting the host removal
  host,             \* the host bookmark store below the bookmarks bar
  nextChromeId,     \* identities handed out so far by the host store
  events,           \* host notifications not yet delivered to the listeners
  uiReady,          \* init() has rendered and attached the user handlers
  edits,            \* user intents and external host changes still allowed
  lastPass,         \* record of the push pass that completed last
  tampered,         \* the host's other user has changed the store
  bookmarks,        \* sync.js `chrome?.bookmarks`: the store's API is there
  jsonContent,      \* the StorableSidebar.json the user has to import
  html,             \* the bookmark file (.html) the user has to import
  stored,           \* storage.js: the document under STORAGE_KEY
  io                \* requests the storage area has queued

vars == <<heap, boxes, expandedSpaceId, timeoutId, burst, nextId, isSyncing, passes,
          dels, host, nextChromeId, events, uiReady, edits, lastPass,
          tampered, bookmarks, jsonContent, html, stored, io>>

docVars == <<heap, boxes, expandedSpaceId, nextId>>
timerVars == <<timeoutId, burst>>
hostVars == <<host, nextChromeId, events>>
envVars == <<bookmarks, jsonContent, html>>
storeVars == <<stored, io>>

\* the identities of Arc's items
ArcIds == {"p", "q", "a", "b", "c", "z"}

\* no file to import
NoContent == [valid |-> TRUE, sync |-> <<>>, sidebar |-> <<>>, containers |-> <<>>]

\* the stored document of the specifications that do not follow storage:
\* they issue no request
NoStore == [doc |-> <<>>, expandedSpaceId |-> Undef]

\* no bookmark file to import
NoFile == [name |-> "", body |-> <<>>]

\* ------------------------------------------------------------ the heap
NoObj == [kind |-> "free", id |-> 0, name |-> "", url |-> "", color |-> "",
          chromeId |-> 0, expanded |-> FALSE, kids |-> <<>>]

Range(s) == {s[i] : i \in DOMAIN s}

Min(S) == CHOOSE x \in S : \A y \in S : x <= y

FreeAddrs(h) == {a \in Addr : h[a].kind = "free"}

\* the address a `new` object gets; Null when the heap is full
Alloc(h) == IF FreeAddrs(h) = {} THEN Null ELSE Min(FreeAddrs(h))

RECURSIVE Reach(_, _, _)
Reach(h, frontier, seen) ==
  IF frontier = {} THEN seen
  ELSE LET s2 == seen \cup frontier
           nxt == UNION {Range(h[a].kids) : a \in frontier} \ s2
       IN Reach(h, nxt, s2)

\* objects no flow can reach any more are returned to the free list
Collect(h, roots) ==
  LET live == Reach(h, roots \ {Null}, {})
  IN [a \in Addr |-> IF a \in live THEN h[a] ELSE NoObj]

RemoveAt(s, i) == SubSeq(s, 1, i - 1) \o SubSeq(s, i + 1, Len(s))

InsertAt(s, i, x) == SubSeq(s, 1, i - 1) \o <<x>> \o SubSeq(s, i, Len(s))

\* Array.prototype.findIndex on identities, 1-based, 0 when absent
FindIndexById(h, items, id) ==
  LET hits == {i \in DOMAIN items : h[items[i]].id = id}
  IN IF hits = {} THEN 0 ELSE Min(hits)

\* ------------------------------------------------------------ utils.js
createEmptyBox(id) ==
  [kind |-> "space", id |-> id, name |-> "a", url |-> "", color |-> "red",
   chromeId |-> Null, expanded |-> FALSE, kids |-> <<>>]

createFolder(id) ==
  [kind |-> "folder", id |-> id, name |-> "a", url |-> "", color |-> "",
   chromeId |-> Null, expanded |-> TRUE, kids |-> <<>>]

createBookmark(id) ==
  [kind |-> "bookmark", id |-> id, name |-> "a", url |-> "u", color |-> "",
   chromeId |-> Null, expanded |-> FALSE, kids |-> <<>>]

RECURSIVE findItemById(_, _, _)
findItemById(h, items, id) ==
  IF items = <<>> THEN Null
  ELSE LET item == Head(items) IN
       IF h[item].id = id THEN item
       ELSE LET found == findItemById(h, h[item].kids, id) IN
            IF found # Null THEN found
            ELSE findItemById(h, Tail(items), id)

RECURSIVE findParentById(_, _, _, _)
findParentById(h, items, id, parent) ==
  IF items = <<>> THEN Undef
  ELSE LET item == Head(items) IN
       IF h[item].id = id THEN parent
       ELSE LET found == IF h[item].kind = "folder"
                         THEN findParentById(h, h[item].kids, id, item)
                         ELSE Undef IN
            IF found # Undef THEN found
            ELSE findParentById(h, Tail(items), id, parent)

\* removeItemById(items, id) on the array owned by `arr`; the result is the
\* heap after the splice and whether a removal occurred
RECURSIVE removeItemById(_, _, _)
RECURSIVE removeInChildren(_, _, _)
removeItemById(h, arr, id) ==
  LET items == h[arr].kids
      index == FindIndexById(h, items, id)
  IN IF index # 0
     THEN [h |-> [h EXCEPT ![arr].kids = RemoveAt(items, index)], ok |-> TRUE]
     ELSE removeInChildren(h, items, id)

removeInChildren(h, items, id) ==
  IF items = <<>> THEN [h |-> h, ok |-> FALSE]
  ELSE LET r == IF h[Head(items)].kind = "folder"
                THEN removeItemById(h, Head(items), id)
                ELSE [h |-> h, ok |-> FALSE]
       IN IF r.ok THEN r ELSE removeInChildren(h, Tail(items), id)

\* a variant that sets the new timer without clearing the pending one
debounce_NoClear(pending) == pending + 1

\* the timers pending after a call of the debounced function:
\* clearTimeout(timeoutId) cancels the timer timeoutId names if it is still
\* pending, setTimeout sets a new one
debounce(pending) == (IF pending > 0 THEN pending - 1 ELSE pending) + 1

\* ------------------------------------------------------- host store
HostIds == 2..MaxHost

NoNode == [exists |-> FALSE, parentId |-> 0, title |-> "", url |-> ""]

NoCall == [op |-> "none", id |-> 0, parentId |-> 0, title |-> "", url |-> ""]

Call(op, id, parentId, title, url) ==
  [op |-> op, id |-> id, parentId |-> parentId, title |-> title, url |-> url]

NoEvent == [type |-> "none", id |-> 0, parentId |-> 0, title |-> "", url |-> ""]

Event(type, id, parentId, title, url) ==
  [type |-> type, id |-> id, parentId |-> parentId, title |-> title, url |-> url]

HostHas(hst, id) == id \in HostIds /\ hst[id].exists

RECURSIVE HostSubtree(_, _, _)
HostSubtree(hst, frontier, seen) ==
  IF frontier = {} THEN seen
  ELSE LET s2 == seen \cup frontier
           nxt == {n \in HostIds : hst[n].exists /\ hst[n].parentId \in frontier} \ s2
       IN HostSubtree(hst, nxt, s2)

HostRemoveTree(hst, id) ==
  LET gone == HostSubtree(hst, {id}, {})
  IN [n \in HostIds |-> IF n \in gone THEN NoNode ELSE hst[n]]

\* the bookmarks bar and the nodes without a URL can hold children
HostIsFolder(hst, id) ==
  id = BOOKMARKS_BAR_ID \/ (HostHas(hst, id) /\ hst[id].url = "")

\* chrome.bookmarks.get / create / update / move / remove / removeTree: the store after
\* the call, whether the call succeeded, the identity it returned and the
\* notification the store emits for it
HostExec(hst, nci, c) ==
  LET same == [host |-> hst, next |-> nci, ok |-> FALSE, id |-> Null, ev |-> NoEvent]
  IN CASE c.op = "get" -> [same EXCEPT !.ok = HostHas(hst, c.id)]
       [] c.op = "create" ->
            IF HostIsFolder(hst, c.parentId)
            THEN LET n == nci + 1 IN
                 [host |-> [hst EXCEPT ![n] = [exists |-> TRUE, parentId |-> c.parentId,
                                               title |-> c.title, url |-> c.url]],
                  next |-> n, ok |-> TRUE, id |-> n,
                  ev |-> Event("created", n, c.parentId, c.title, c.url)]
            ELSE same
       [] c.op = "update" ->
            IF HostHas(hst, c.id)
            THEN LET url == IF c.url = "" THEN hst[c.id].url ELSE c.url IN
                 [same EXCEPT !.host = [hst EXCEPT ![c.id].title = c.title,
                                                   ![c.id].url = url],
                              !.ok = TRUE,
                              !.ev = Event("changed", c.id, 0, c.title, url)]
            ELSE same
       [] c.op = "move" ->
            IF /\ HostHas(hst, c.id)
               /\ HostIsFolder(hst, c.parentId)
               /\ c.parentId \notin HostSubtree(hst, {c.id}, {})
            THEN [same EXCEPT !.host = [hst EXCEPT ![c.id].parentId = c.parentId],
                              !.ok = TRUE,
                              !.ev = Event("moved", c.id, c.parentId, "", "")]
            ELSE same
       [] c.op = "remove" ->
            IF HostHas(hst, c.id) /\ HostSubtree(hst, {c.id}, {}) = {c.id}
            THEN [same EXCEPT !.host = HostRemoveTree(hst, c.id), !.ok = TRUE,
                              !.ev = Event("removed", c.id, hst[c.id].parentId, "", "")]
            ELSE same
       [] c.op = "removeTree" ->
            IF HostHas(hst, c.id)
            THEN [same EXCEPT !.host = HostRemoveTree(hst, c.id), !.ok = TRUE,
                              !.ev = Event("removed", c.id, hst[c.id].parentId, "", "")]
            ELSE same
       [] OTHER -> same

\* ------------------------------------------------------------- app.js
findBox(h, bx, boxId) ==
  LET items == h[bx].kids
      index == FindIndexById(h, items, boxId)
  IN IF index = 0 THEN Null ELSE items[index]

\* a variant that finds no descendant at all
isDescendant_Blind(h, item, targetId) == FALSE

RECURSIVE isDescendant(_, _, _)
RECURSIVE isDescendantLoop(_, _, _)
isDescendant(h, item, targetId) == isDescendantLoop(h, h[item].kids, targetId)

isDescendantLoop(h, children, targetId) ==
  IF children = <<>> THEN FALSE
  ELSE IF h[Head(children)].id = targetId THEN TRUE
  ELSE IF isDescendant(h, Head(children), targetId) THEN TRUE
  ELSE isDescendantLoop(h, Tail(children), targetId)

\* the addresses a push pass or a pending delete still holds
PassAddrs(p) ==
  {p.root, p.box} \cup Range(p.updatedBoxes) \cup
  UNION {{f.arr, f.item} \cup Range(f.updatedItems) : f \in Range(p.frames)}

\* the arrays that calls of saveBoxes hold until they are serialised
IoAddrs(q) == {q[i].bx : i \in {j \in DOMAIN q : q[j].req = "get"}}

Roots(bx, ps, ds) ==
  {bx} \cup UNION {PassAddrs(p) : p \in Range(ps)} \cup {d.box : d \in Range(ds)}
    \cup IoAddrs(io)

\* ------------------------------------------------- storage.js: requests
\* saveBoxes(boxes) and saveExpandedSpaceId(id) up to `await loadData()`:
\* the read they have asked the storage area for
SaveBoxesCall(bx) ==
  [req |-> "get", op |-> "saveBoxes", bx |-> bx, exp |-> Null, data |-> NoStore]

SaveExpandedCall(id) ==
  [req |-> "get", op |-> "saveExpandedSpaceId", bx |-> Null, exp |-> id,
   data |-> NoStore]

\* saveData(data): the write, with the value as it is serialised at the call
SetCall(data) ==
  [req |-> "set", op |-> "saveData", bx |-> Null, exp |-> Null, data |-> data]

\* the arrays the calls of a handler hold
Held(calls) == IF stored = NoStore THEN {} ELSE IoAddrs(calls)

\* the calls a handler makes are queued behind those already there
Issue(calls) ==
  /\ io' = IF stored = NoStore THEN io ELSE io \o calls
  /\ stored' = stored

\* another flow acted while the pass was in flight
Disturb(ps) == [i \in DOMAIN ps |-> [ps[i] EXCEPT !.solo = FALSE]]

\* arguments an intent can carry: the identities present, and one that is not
Missing == MaxIds + 1

BoxIdArgs == {heap[a].id : a \in Range(heap[boxes].kids)} \cup {Missing}

ItemIdArgs ==
  {heap[a].id : a \in {x \in Addr : heap[x].kind \in {"folder", "bookmark"}}}
    \cup {Missing}

\* the common tail of a synchronous user intent: h2 is the heap it leaves,
\* saved tells whether it reached save() (the debounced wrapper sets a timer)
LocalSave(h2, saved, calls) ==
  /\ uiReady
  /\ edits > 0
  /\ edits' = edits - 1
  /\ heap' = Collect(h2, Roots(boxes, passes, dels))
  /\ timeoutId' = IF saved THEN debounce(timeoutId) ELSE timeoutId
  /\ burst' = IF saved THEN burst + 1 ELSE burst
  /\ passes' = IF h2 = heap THEN passes ELSE Disturb(passes)
  /\ Issue(calls)
  /\ UNCHANGED <<boxes, isSyncing, dels, hostVars, envVars, uiReady, lastPass, tampered>>

\* the tail of an intent that makes no storage call of its own
LocalStep(h2, saved) == LocalSave(h2, saved, <<>>)

handleAddBox ==
  /\ nextId < MaxIds
  /\ Alloc(heap) # Null
  /\ LET a == Alloc(heap)
         id == nextId + 1
     IN /\ LocalSave([heap EXCEPT ![a] = createEmptyBox(id),
                                  ![boxes].kids = Append(@, a)], TRUE,
                      <<SaveExpandedCall(id)>>)
        /\ expandedSpaceId' = id
        /\ nextId' = id

\* a variant that puts the new item first and leaves the folder as it is
AddItem_AtFront(kind, boxId, parentId) ==
  /\ nextId < MaxIds
  /\ Alloc(heap) # Null
  /\ LET box == findBox(heap, boxes, boxId) IN
     IF box = Null THEN LocalStep(heap, FALSE) /\ UNCHANGED nextId
     ELSE LET a == Alloc(heap)
              id == nextId + 1
              h1 == [heap EXCEPT ![a] = IF kind = "folder" THEN createFolder(id)
                                                    ELSE createBookmark(id)]
              parent == findItemById(heap, heap[box].kids, parentId)
              h2 == IF parentId # Null
                    THEN IF parent # Null /\ heap[parent].kind = "folder"
                         THEN [h1 EXCEPT ![parent].kids = <<a>> \o @]
                         ELSE h1
                    ELSE [h1 EXCEPT ![box].kids = <<a>> \o @]
          IN LocalStep(h2, TRUE) /\ nextId' = id
  /\ UNCHANGED expandedSpaceId

\* onAddFolder / onAddBookmark share their shape; `kind` picks the constructor
AddItem(kind, boxId, parentId) ==
  /\ nextId < MaxIds
  /\ Alloc(heap) # Null
  /\ LET box == findBox(heap, boxes, boxId) IN
     IF box = Null THEN LocalStep(heap, FALSE) /\ UNCHANGED nextId
     ELSE LET a == Alloc(heap)
              id == nextId + 1
              h1 == [heap EXCEPT ![a] = IF kind = "folder" THEN createFolder(id)
                                                    ELSE createBookmark(id)]
              parent == findItemById(heap, heap[box].kids, parentId)
              h2 == IF parentId # Null
                    THEN IF parent # Null /\ heap[parent].kind = "folder"
                         THEN [h1 EXCEPT ![parent].kids = Append(@, a),
                                         ![parent].expanded = TRUE]
                         ELSE h1
                    ELSE [h1 EXCEPT ![box].kids = Append(@, a)]
          IN LocalStep(h2, TRUE) /\ nextId' = id
  /\ UNCHANGED expandedSpaceId

onAddFolder(boxId, parentId) == AddItem("folder", boxId, parentId)

onAddBookmark(boxId, parentId) == AddItem("bookmark", boxId, parentId)

onItemNameChange(boxId, itemId, name) ==
  /\ LET box == findBox(heap, boxes, boxId)
         item == IF box = Null THEN Null
                 ELSE findItemById(heap, heap[box].kids, itemId)
     IN IF item = Null THEN LocalStep(heap, FALSE)
        ELSE LocalStep([heap EXCEPT ![item].name = name], TRUE)
  /\ UNCHANGED <<expandedSpaceId, nextId>>

onItemUrlChange(boxId, itemId, url) ==
  /\ LET box == findBox(heap, boxes, boxId)
         item == IF box = Null THEN Null
                 ELSE findItemById(heap, heap[box].kids, itemId)
     IN IF item # Null /\ heap[item].kind = "bookmark"
        THEN LocalStep([heap EXCEPT ![item].url = url], TRUE)
        ELSE LocalStep(heap, FALSE)
  /\ UNCHANGED <<expandedSpaceId, nextId>>

onToggleExpand(boxId, itemId) ==
  /\ LET box == findBox(heap, boxes, boxId)
         item == IF box = Null THEN Null
                 ELSE findItemById(heap, heap[box].kids, itemId)
     IN IF item # Null /\ heap[item].kind = "folder"
        THEN LocalStep([heap EXCEPT ![item].expanded = ~@], TRUE)
        ELSE LocalStep(heap, FALSE)
  /\ UNCHANGED <<expandedSpaceId, nextId>>

onTitleChange(boxId, title) ==
  /\ LET box == findBox(heap, boxes, boxId)
     IN IF box # Null THEN LocalStep([heap EXCEPT ![box].name = title], TRUE)
        ELSE LocalStep(heap, FALSE)
  /\ UNCHANGED <<expandedSpaceId, nextId>>

onColorChange(boxId, color) ==
  /\ LET box == findBox(heap, boxes, boxId)
     IN IF box # Null THEN LocalStep([heap EXCEPT ![box].color = color], TRUE)
        ELSE LocalStep(heap, FALSE)
  /\ UNCHANGED <<expandedSpaceId, nextId>>

\* the heap after onMoveItem; `saved` tells whether save() was reached
MoveItemHeap(h, bx, sourceBoxId, itemId, targetBoxId, targetParentId) ==
  LET sourceBox == findBox(h, bx, sourceBoxId)
      targetBox == findBox(h, bx, targetBoxId)
      item == IF sourceBox = Null THEN Null
              ELSE findItemById(h, h[sourceBox].kids, itemId)
  IN IF sourceBox = Null \/ targetBox = Null THEN [h |-> h, saved |-> FALSE]
     ELSE IF item = Null THEN [h |-> h, saved |-> FALSE]
     ELSE IF h[item].kind = "folder" /\ targetParentId = itemId
          THEN [h |-> h, saved |-> FALSE]
     ELSE LET h1 == removeItemById(h, sourceBox, itemId).h
              targetParent == findItemById(h1, h1[targetBox].kids, targetParentId)
              h2 == IF targetParentId # Null
                    THEN IF targetParent # Null /\ h1[targetParent].kind = "folder"
                         THEN [h1 EXCEPT ![targetParent].kids = Append(@, item),
                                         ![targetParent].expanded = TRUE]
                         ELSE h1
                    ELSE [h1 EXCEPT ![targetBox].kids = Append(@, item)]
          IN [h |-> h2, saved |-> TRUE]

onMoveItem(sourceBoxId, itemId, targetBoxId, targetParentId) ==
  /\ LET r == MoveItemHeap(heap, boxes, sourceBoxId, itemId, targetBoxId,
                           targetParentId)
     IN LocalStep(r.h, r.saved)
  /\ UNCHANGED <<expandedSpaceId, nextId>>

\* the heap after onReorderItem; `saved` tells whether save() was reached
\* a variant that looks the target index up before the item is taken out
ReorderItemHeap_IndexFirst(h, bx, sourceBoxId, itemId, targetBoxId, targetItemId, position) ==
  LET sourceBox == findBox(h, bx, sourceBoxId)
      targetBox == findBox(h, bx, targetBoxId)
      item == IF sourceBox = Null THEN Null
              ELSE findItemById(h, h[sourceBox].kids, itemId)
      targetItem == IF targetBox = Null THEN Null
                    ELSE findItemById(h, h[targetBox].kids, targetItemId)
  IN IF sourceBox = Null \/ targetBox = Null \/ item = Null \/ targetItem = Null
     THEN [h |-> h, saved |-> FALSE]
     ELSE LET targetParent == findParentById(h, h[targetBox].kids, targetItemId, Null)
              targetArray == IF targetParent # Null /\ targetParent # Undef
                             THEN targetParent ELSE targetBox
              found == FindIndexById(h, h[targetArray].kids, targetItemId)
              targetIndex == IF position = "after" THEN found + 1 ELSE found
              h1 == removeItemById(h, sourceBox, itemId).h
          IN IF h[item].kind = "folder" /\ isDescendant(h, item, targetItemId)
             THEN [h |-> h, saved |-> FALSE]
             ELSE [h |-> [h1 EXCEPT ![targetArray].kids =
                            InsertAt(@, Min({targetIndex, Len(@) + 1}), item)],
                   saved |-> TRUE]

ReorderItemHeap(h, bx, sourceBoxId, itemId, targetBoxId, targetItemId, position) ==
  LET sourceBox == findBox(h, bx, sourceBoxId)
      targetBox == findBox(h, bx, targetBoxId)
      item == IF sourceBox = Null THEN Null
              ELSE findItemById(h, h[sourceBox].kids, itemId)
      targetItem == IF targetBox = Null THEN Null
                    ELSE findItemById(h, h[targetBox].kids, targetItemId)
  IN IF sourceBox = Null \/ targetBox = Null THEN [h |-> h, saved |-> FALSE]
     ELSE IF item = Null THEN [h |-> h, saved |-> FALSE]
     ELSE IF targetItem = Null THEN [h |-> h, saved |-> FALSE]
     ELSE LET targetParent == findParentById(h, h[targetBox].kids, targetItemId, Null)
              \* targetParent ? targetParent.children : targetBox.items
              targetArray == IF targetParent # Null /\ targetParent # Undef
                             THEN targetParent ELSE targetBox
          IN IF h[item].kind = "folder" /\ isDescendant(h, item, targetItemId)
             THEN [h |-> h, saved |-> FALSE]
             ELSE LET h1 == removeItemById(h, sourceBox, itemId).h
                      found == FindIndexById(h1, h1[targetArray].kids, targetItemId)
                      targetIndex == IF position = "after" THEN found + 1 ELSE found
                  IN IF found = 0 THEN [h |-> h1, saved |-> FALSE]
                     ELSE [h |-> [h1 EXCEPT ![targetArray].kids =
                                     InsertAt(@, targetIndex, item)],
                           saved |-> TRUE]

onReorderItem(sourceBoxId, itemId, targetBoxId, targetItemId, position) ==
  /\ LET r == ReorderItemHeap(heap, boxes, sourceBoxId, itemId, targetBoxId,
                              targetItemId, position)
     IN LocalStep(r.h, r.saved)
  /\ UNCHANGED <<expandedSpaceId, nextId>>

\* ------------------------------------------------- tree specification
EmptyHeap == [a \in Addr |-> IF a = 1 THEN [NoObj EXCEPT !.kind = "root"] ELSE NoObj]

\* ----------------------------------------------------------- storage.js
\* the tree below an object, as a value (what a structured clone of it holds)
RECURSIVE TreeOf(_, _)
TreeOf(h, a) ==
  [h[a] EXCEPT !.kids = [i \in DOMAIN h[a].kids |-> TreeOf(h, h[a].kids[i])]]

\* boxes.length > 0 ? boxes[0].id : null
FirstBoxId(h, bx) == IF h[bx].kids = <<>> THEN Null ELSE h[h[bx].kids[1]].id

\* a variant of migrateData that leaves `collapsed` in place
migrateData_KeepCollapsed(doc) ==
  [doc EXCEPT !.kids =
     [b \in DOMAIN doc.kids |->
        [f \in DOMAIN doc.kids[b] \ {"x", "y", "width", "height"} |-> doc.kids[b][f]]]]

\* migrateData: the deprecated properties are dropped from every box
migrateData(doc) ==
  [doc EXCEPT !.kids =
     [b \in DOMAIN doc.kids |->
        [f \in DOMAIN doc.kids[b] \ {"x", "y", "width", "height", "collapsed"} |->
           doc.kids[b][f]]]]

\* the objects a stored value becomes when it is read back: the trees ts laid
\* out in heap h from address `next` on
RECURSIVE Materialise(_, _, _)
Materialise(ts, h, next) ==
  IF ts = <<>> THEN [h |-> h, at |-> <<>>, next |-> next]
  ELSE LET inner == Materialise(Head(ts).kids, h, next + 1)
           h1 == [inner.h EXCEPT ![next] = [Head(ts) EXCEPT !.kids = inner.at]]
           rest == Materialise(Tail(ts), h1, inner.next)
       IN [h |-> rest.h, at |-> <<next>> \o rest.at, next |-> rest.next]

\* loadData() of what saveBoxes(boxes) stored
loadData(doc) ==
  Materialise(<<migrateData(doc)>>, [a \in Addr |-> NoObj], 1).h

\* without chrome.bookmarks (the development page) the debounced save stores
\* the document as it is; the page is then loaded again and init() reads the
\* document back
SaveReload ==
  /\ ~bookmarks
  /\ timeoutId > 0
  /\ passes = <<>>
  /\ dels = <<>>
  /\ heap' = loadData(TreeOf(heap, boxes))
  /\ boxes' = 1
  /\ expandedSpaceId' = IF expandedSpaceId # Null THEN expandedSpaceId
                        ELSE FirstBoxId(heap, boxes)
  /\ timeoutId' = 0
  /\ burst' = 0
  /\ UNCHANGED <<nextId, isSyncing, passes, dels, hostVars, envVars, storeVars, uiReady, edits,
                 lastPass, tampered>>

\* a fresh install after init(): nothing stored, nothing to push
InitTree ==
  /\ heap = EmptyHeap
  /\ boxes = 1
  /\ expandedSpaceId = Null
  /\ timeoutId = 0
  /\ burst = 0
  /\ nextId = 0
  /\ isSyncing = FALSE
  /\ passes = <<>>
  /\ dels = <<>>
  /\ host = [n \in HostIds |-> NoNode]
  /\ nextChromeId = BOOKMARKS_BAR_ID
  /\ events = <<>>
  /\ uiReady = TRUE
  /\ edits = TreeEdits
  /\ lastPass = <<>>
  /\ tampered = FALSE
  /\ bookmarks = FALSE
  /\ jsonContent = NoContent
  /\ html = NoFile
  /\ stored = NoStore
  /\ io = <<>>

NextTree ==
  \/ handleAddBox
  \/ \E b \in BoxIdArgs, p \in ItemIdArgs \cup {Null} : onAddFolder(b, p)
  \/ \E b \in BoxIdArgs, p \in ItemIdArgs \cup {Null} : onAddBookmark(b, p)
  \/ \E b \in BoxIdArgs, i \in ItemIdArgs, n \in Names : onItemNameChange(b, i, n)
  \/ \E s \in BoxIdArgs, i \in ItemIdArgs, t \in BoxIdArgs,
        p \in ItemIdArgs \cup {Null} : onMoveItem(s, i, t, p)
  \/ \E s \in BoxIdArgs, i \in ItemIdArgs, t \in BoxIdArgs, x \in ItemIdArgs,
        pos \in Positions : onReorderItem(s, i, t, x, pos)
  \/ \E b \in BoxIdArgs, i \in ItemIdArgs : onToggleExpand(b, i)
  \/ SaveReload

SpecTree == InitTree /\ [][NextTree]_vars

\* ------------------------------------------------------------ sync.js
RECURSIVE hasDescendantWithChromeId(_, _, _)
hasDescendantWithChromeId(h, items, chromeId) ==
  IF items = <<>> THEN FALSE
  ELSE IF h[Head(items)].chromeId = chromeId THEN TRUE
  ELSE IF hasDescendantWithChromeId(h, h[Head(items)].kids, chromeId) THEN TRUE
  ELSE hasDescendantWithChromeId(h, Tail(items), chromeId)

RECURSIVE findParentSpaceIn(_, _, _)
findParentSpaceIn(h, bs, chromeId) ==
  IF bs = <<>> THEN Null
  ELSE IF h[Head(bs)].chromeId = chromeId THEN Head(bs)
  ELSE IF hasDescendantWithChromeId(h, h[Head(bs)].kids, chromeId) THEN Head(bs)
  ELSE findParentSpaceIn(h, Tail(bs), chromeId)

findParentSpace(h, bx, chromeId) == findParentSpaceIn(h, h[bx].kids, chromeId)

NotFound == [type |-> "none", item |-> Null]

RECURSIVE findInItems(_, _, _)
findInItems(h, items, chromeId) ==
  IF items = <<>> THEN NotFound
  ELSE LET item == Head(items) IN
       IF h[item].chromeId = chromeId THEN [type |-> h[item].kind, item |-> item]
       ELSE LET found == findInItems(h, h[item].kids, chromeId) IN
            IF found.item # Null THEN found
            ELSE findInItems(h, Tail(items), chromeId)

RECURSIVE findItemByChromeIdIn(_, _, _)
findItemByChromeIdIn(h, bs, chromeId) ==
  IF bs = <<>> THEN NotFound
  ELSE IF h[Head(bs)].chromeId = chromeId THEN [type |-> "space", item |-> Head(bs)]
  ELSE LET found == findInItems(h, h[Head(bs)].kids, chromeId) IN
       IF found.item # Null THEN found
       ELSE findItemByChromeIdIn(h, Tail(bs), chromeId)

findItemByChromeId(h, bx, chromeId) == findItemByChromeIdIn(h, h[bx].kids, chromeId)

FindIndexByChromeId(h, items, chromeId) ==
  LET hits == {i \in DOMAIN items : h[items[i]].chromeId = chromeId}
  IN IF hits = {} THEN 0 ELSE Min(hits)

RECURSIVE removeItemByChromeId(_, _, _)
RECURSIVE removeByChromeIdInChildren(_, _, _)
removeItemByChromeId(h, arr, chromeId) ==
  LET items == h[arr].kids
      index == FindIndexByChromeId(h, items, chromeId)
  IN IF index # 0
     THEN [h |-> [h EXCEPT ![arr].kids = RemoveAt(items, index)], ok |-> TRUE]
     ELSE removeByChromeIdInChildren(h, items, chromeId)

removeByChromeIdInChildren(h, items, chromeId) ==
  IF items = <<>> THEN [h |-> h, ok |-> FALSE]
  ELSE LET r == IF h[Head(items)].kind = "folder"
                THEN removeItemByChromeId(h, Head(items), chromeId)
                ELSE [h |-> h, ok |-> FALSE]
       IN IF r.ok THEN r ELSE removeByChromeIdInChildren(h, Tail(items), chromeId)

\* ---------------------------------- app.js: handleChromeBookmarkChange
\* The handlers work on a record L of the application state they touch:
\* h (heap), bx (boxes), exp (expandedSpaceId), nid (identities handed out),
\* ok (FALSE when a bound of the model stops the run).

\* boxes.filter(b => b.id !== boxId): a new array object
FilterBoxes(h, bx, boxId) ==
  LET old == h[bx].kids
      keep == SelectSeq(old, LAMBDA b : h[b].id # boxId)
      a == Alloc(h)
  IN IF a = Null THEN [h |-> h, bx |-> bx, ok |-> FALSE]
     ELSE [h |-> [h EXCEPT ![a] = [NoObj EXCEPT !.kind = "root", !.kids = keep]],
           bx |-> a, ok |-> TRUE]

\* a variant that puts the new item in front of its siblings
onCreated_AtFront(L, ev) ==
  LET parentResult == findItemByChromeId(L.h, L.bx, ev.parentId)
      a == Alloc(L.h)
      newItem == [kind |-> IF ev.url # "" THEN "bookmark" ELSE "folder",
                  id |-> L.nid + 1, name |-> ev.title, url |-> ev.url, color |-> "",
                  chromeId |-> ev.id, expanded |-> ev.url = "", kids |-> <<>>]
  IN IF parentResult.type \notin {"folder", "space"} THEN L
     ELSE IF L.nid >= MaxIds \/ a = Null THEN [L EXCEPT !.ok = FALSE]
     ELSE [L EXCEPT !.nid = L.nid + 1,
                    !.h = [L.h EXCEPT ![a] = newItem,
                                      ![parentResult.item].kids = <<a>> \o @]]

onCreated(L, ev) ==
  LET parentSpace == findParentSpace(L.h, L.bx, ev.parentId) IN
  IF parentSpace = Null THEN L
  ELSE IF L.nid >= MaxIds \/ Alloc(L.h) = Null THEN [L EXCEPT !.ok = FALSE]
  ELSE LET parentResult == findItemByChromeId(L.h, L.bx, ev.parentId)
           a == Alloc(L.h)
           id == L.nid + 1
           newItem == IF ev.url # ""
                      THEN [kind |-> "bookmark", id |-> id, name |-> ev.title,
                            url |-> ev.url, color |-> "", chromeId |-> ev.id,
                            expanded |-> FALSE, kids |-> <<>>]
                      ELSE [kind |-> "folder", id |-> id, name |-> ev.title,
                            url |-> "", color |-> "", chromeId |-> ev.id,
                            expanded |-> TRUE, kids |-> <<>>]
           h1 == [L.h EXCEPT ![a] = newItem]
       IN [L EXCEPT !.nid = id,
                    !.h = IF parentResult.type \in {"folder", "space"}
                          THEN [h1 EXCEPT ![parentResult.item].kids = Append(@, a)]
                          ELSE L.h]

RECURSIVE removeFromBoxes(_, _, _)
removeFromBoxes(h, bs, chromeId) ==
  IF bs = <<>> THEN h
  ELSE LET r == removeItemByChromeId(h, Head(bs), chromeId) IN
       IF r.ok THEN r.h ELSE removeFromBoxes(h, Tail(bs), chromeId)

\* a variant that leaves expandedSpaceId alone
onRemoved_KeepExpanded(L, ev) ==
  LET result == findItemByChromeId(L.h, L.bx, ev.id)
      f == FilterBoxes(L.h, L.bx, L.h[result.item].id)
  IN IF result.item = Null THEN L
     ELSE IF result.type # "space"
     THEN [L EXCEPT !.h = removeFromBoxes(L.h, L.h[L.bx].kids, ev.id)]
     ELSE IF ~f.ok THEN [L EXCEPT !.ok = FALSE]
     ELSE [L EXCEPT !.h = f.h, !.bx = f.bx]

onRemoved(L, ev) ==
  LET result == findItemByChromeId(L.h, L.bx, ev.id) IN
  IF result.item = Null THEN L
  ELSE IF result.type = "space"
  THEN LET boxId == L.h[result.item].id
           f == FilterBoxes(L.h, L.bx, boxId)
       IN IF ~f.ok THEN [L EXCEPT !.ok = FALSE]
          ELSE [L EXCEPT !.h = f.h, !.bx = f.bx,
                         !.exp = IF L.exp = boxId THEN FirstBoxId(f.h, f.bx) ELSE L.exp]
  ELSE [L EXCEPT !.h = removeFromBoxes(L.h, L.h[L.bx].kids, ev.id)]

onChanged(L, ev) ==
  LET result == findItemByChromeId(L.h, L.bx, ev.id) IN
  IF result.item = Null THEN L
  ELSE LET it == result.item
           \* changeInfo.title || item.name
           name == IF ev.title # "" THEN ev.title ELSE L.h[it].name
           url == IF ev.url # "" /\ L.h[it].kind = "bookmark"
                  THEN ev.url ELSE L.h[it].url
       IN [L EXCEPT !.h = [L.h EXCEPT ![it].name = name, ![it].url = url]]

\* a variant that takes a moved node out of the document
handleChromeBookmarkChange_MovedOut(L, ev) ==
  CASE ev.type = "created" -> onCreated(L, ev)
    [] ev.type = "changed" -> onChanged(L, ev)
    [] OTHER -> onRemoved(L, ev)

handleChromeBookmarkChange(L, ev) ==
  CASE ev.type = "created" -> onCreated(L, ev)
    [] ev.type = "removed" -> onRemoved(L, ev)
    [] ev.type = "changed" -> onChanged(L, ev)
    [] OTHER -> L       \* "moved": nothing is done

\* setupChromeListeners: every listener returns at once while isSyncing
Listener(L, ev, flag) ==
  IF flag \/ ev.type = "none" THEN L ELSE handleChromeBookmarkChange(L, ev)

\* handleChromeBookmarkChange, its storage calls when it changed the document
\* from L0 to L1: saveExpandedSpaceId if the expanded space went, saveBoxes
Heard(L0, L1) ==
  IF L1 = L0 THEN <<>>
  ELSE (IF L1.exp # L0.exp THEN <<SaveExpandedCall(L1.exp)>> ELSE <<>>)
       \o <<SaveBoxesCall(L1.bx)>>

\* onDelete and the 'removed' listener: the calls after the filter
AfterFilter(wasExpanded, first, bx) ==
  (IF wasExpanded THEN <<SaveExpandedCall(first)>> ELSE <<>>) \o <<SaveBoxesCall(bx)>>

\* ------------------------------------------- sync.js: the push pass
\* A pass is one call of syncAllSpacesToChrome.  It is suspended at an await
\* of a host call (`pending`); `frames` is the stack of syncItemsToChrome
\* calls, each with the array it iterates (the `kids` of `arr`), the iterator
\* position, the items returned so far, and the item being pushed.
\* The run state st carries h (heap), p (the pass), flag (isSyncing),
\* fin (the pass returned), failed (it threw), ok (no model bound hit).

Frame(arr, parentChromeId) ==
  [arr |-> arr, i |-> 0, updatedItems |-> <<>>, parentChromeId |-> parentChromeId,
   item |-> Null, chromeId |-> Null]

CountCreate(p, c) ==
  [p EXCEPT !.pending = c,
            !.creates = IF c.op = "create" THEN @ + 1 ELSE @]

\* syncSpaceToChrome, "Create or update the space folder"
upsertSpace(h, p) ==
  CountCreate(p, IF p.chromeId = Null
                 THEN Call("create", 0, BOOKMARKS_BAR_ID, h[p.box].name, "")
                 ELSE Call("update", p.chromeId, 0, h[p.box].name, ""))

\* a variant whose bookmark branch creates a node whether or not one is bound
upsertItem_Recreate(h, p) ==
  LET f == p.frames[Len(p.frames)]
      item == h[f.item]
  IN CountCreate(p, IF item.kind = "bookmark" \/ f.chromeId = Null
                    THEN Call("create", 0, f.parentChromeId, item.name,
                              IF item.kind = "folder" THEN "" ELSE item.url)
                    ELSE Call("update", f.chromeId, 0, item.name, ""))

\* a variant that creates every node directly below the bookmarks bar
upsertItem_BelowBar(h, p) ==
  LET f == p.frames[Len(p.frames)]
      item == h[f.item]
      url == IF item.kind = "folder" THEN "" ELSE item.url
  IN CountCreate(p, IF f.chromeId = Null
                    THEN Call("create", 0, BOOKMARKS_BAR_ID, item.name, url)
                    ELSE Call("update", f.chromeId, 0, item.name, url))

\* syncItemsToChrome, "Create or update folder" / "Create or update bookmark"
upsertItem(h, p) ==
  LET f == p.frames[Len(p.frames)]
      item == h[f.item]
      url == IF item.kind = "folder" THEN "" ELSE item.url
  IN CountCreate(p, IF f.chromeId = Null
                    THEN Call("create", 0, f.parentChromeId, item.name, url)
                    ELSE Call("update", f.chromeId, 0, item.name, url))

RECURSIVE nextItem(_)
RECURSIVE nextBox(_)

\* syncItemsToChrome: the for-of loop, from the top of an iteration
nextItem(st) ==
  LET p == st.p
      n == Len(p.frames)
      f == p.frames[n]
      items == st.h[f.arr].kids
  IN IF f.i < Len(items)
     THEN LET item == items[f.i + 1]
              chromeId == st.h[item].chromeId
              p1 == [p EXCEPT !.frames[n].i = f.i + 1,
                              !.frames[n].item = item,
                              !.frames[n].chromeId = chromeId]
          IN IF chromeId # Null
             THEN [st EXCEPT !.p = [p1 EXCEPT !.pending =
                                      Call("get", chromeId, 0, "", "")]]
             ELSE [st EXCEPT !.p = upsertItem(st.h, p1)]
     ELSE \* return updatedItems
       LET a == Alloc(st.h) IN
       IF a = Null THEN [st EXCEPT !.ok = FALSE]
       ELSE IF n = 1
       THEN \* syncSpaceToChrome: return {...box, chromeId, items}; finally
         LET obj == [st.h[p.box] EXCEPT !.chromeId = p.chromeId,
                                        !.kids = f.updatedItems]
         IN nextBox([st EXCEPT !.h = [@ EXCEPT ![a] = obj],
                               !.flag = FALSE,
                               !.p = [p EXCEPT !.frames = <<>>,
                                               !.updatedBoxes = Append(@, a)]])
       ELSE \* updatedItems.push({...item, chromeId, children})
         LET g == p.frames[n - 1]
             obj == [st.h[g.item] EXCEPT !.chromeId = g.chromeId,
                                         !.kids = f.updatedItems]
             up == [SubSeq(p.frames, 1, n - 1) EXCEPT
                      ![n - 1].updatedItems = Append(@, a)]
         IN nextItem([st EXCEPT !.h = [@ EXCEPT ![a] = obj],
                                !.p = [p EXCEPT !.frames = up]])

\* syncAllSpacesToChrome: the for-of loop over the boxes array
nextBox(st) ==
  LET p == st.p
      bs == st.h[p.root].kids
  IN IF p.bi < Len(bs)
     THEN LET box == bs[p.bi + 1]
              chromeId == st.h[box].chromeId
              p1 == [p EXCEPT !.bi = p.bi + 1, !.box = box, !.chromeId = chromeId]
          IN [st EXCEPT !.flag = TRUE,
                        !.p = IF chromeId # Null
                              THEN [p1 EXCEPT !.pending =
                                      Call("get", chromeId, 0, "", "")]
                              ELSE upsertSpace(st.h, p1)]
     ELSE [st EXCEPT !.flag = FALSE, !.fin = TRUE]

\* the code that runs when the awaited host call settles with result r
\* a variant without the finally blocks
Thrown_FlagKept(st) == [st EXCEPT !.failed = TRUE]

\* create / update threw: both finally blocks run, the pass is gone
Thrown(st) == [st EXCEPT !.flag = FALSE, !.failed = TRUE]

afterResponse(st, r) ==
  LET p == st.p
      n == Len(p.frames)
  IN IF p.pending.op = "get"
     THEN \* a failed lookup is caught: chromeId = null
       IF n = 0
       THEN [st EXCEPT !.p = upsertSpace(st.h,
                        [p EXCEPT !.chromeId = IF r.ok THEN @ ELSE Null])]
       ELSE [st EXCEPT !.p = upsertItem(st.h,
                        [p EXCEPT !.frames[n].chromeId = IF r.ok THEN @ ELSE Null])]
     ELSE IF ~r.ok
     THEN Thrown(st)
     ELSE IF n = 0
     THEN LET cid == IF p.pending.op = "create" THEN r.id ELSE p.chromeId IN
          nextItem([st EXCEPT !.p = [p EXCEPT !.chromeId = cid,
                                              !.pending = NoCall,
                                              !.frames = <<Frame(p.box, cid)>>]])
     ELSE LET f == p.frames[n]
              cid == IF p.pending.op = "create" THEN r.id ELSE f.chromeId
              p1 == [p EXCEPT !.pending = NoCall, !.frames[n].chromeId = cid]
          IN IF st.h[f.item].kind = "folder"
             THEN nextItem([st EXCEPT !.p =
                              [p1 EXCEPT !.frames = Append(@, Frame(f.item, cid))]])
             ELSE \* updatedItems.push({...item, chromeId})
               LET a == Alloc(st.h) IN
               IF a = Null THEN [st EXCEPT !.ok = FALSE]
               ELSE nextItem([st EXCEPT
                      !.h = [@ EXCEPT ![a] = [st.h[f.item] EXCEPT !.chromeId = cid]],
                      !.p = [p1 EXCEPT !.frames[n].updatedItems = Append(@, a)]])

Snapshot(h, bx, hst) == [doc |-> TreeOf(h, bx), host |-> hst]

\* syncAllSpacesToChrome(boxes) up to its first await
StartPass(h, bx, kind, quiet, hst) ==
  nextBox([h |-> h, flag |-> TRUE, fin |-> FALSE, failed |-> FALSE, ok |-> TRUE,
           p |-> [kind |-> kind, root |-> bx, bi |-> 0, updatedBoxes |-> <<>>,
                  box |-> Null, chromeId |-> Null, frames |-> <<>>,
                  pending |-> NoCall, solo |-> TRUE, quiet |-> quiet,
                  creates |-> 0, before |-> Snapshot(h, bx, hst)]])

\* `boxes = await syncAllSpacesToChrome(boxes)`: the array the pass returns
Returned(st) ==
  LET a == Alloc(st.h) IN
  IF a = Null THEN [h |-> st.h, bx |-> Null]
  ELSE [h |-> [st.h EXCEPT ![a] = [NoObj EXCEPT !.kind = "root",
                                                !.kids = st.p.updatedBoxes]],
        bx |-> a]

PassRecord(p, h, bx, hst) ==
  [kind |-> p.kind, solo |-> p.solo, quiet |-> p.quiet, creates |-> p.creates,
   before |-> p.before, after |-> Snapshot(h, bx, hst)]

\* the debounce timer fires: save's callback starts a push pass
TimerFire ==
  /\ timeoutId > 0
  /\ Len(passes) < MaxPasses
  /\ IF ~bookmarks
     THEN \* syncAllSpacesToChrome returns its argument
       /\ Issue(<<SaveBoxesCall(boxes)>>)
       /\ UNCHANGED <<heap, boxes, passes, lastPass, isSyncing>>
     ELSE
     LET quiet == /\ passes = <<>> /\ dels = <<>> /\ lastPass # <<>>
                  /\ lastPass[1].solo
                  /\ lastPass[1].after = Snapshot(heap, boxes, host)
         st == StartPass(heap, boxes, "save", quiet, host)
         ret == Returned(st)
     IN /\ st.ok
        /\ IF st.fin
           THEN \* no space to push: the pass returns within the same task
             /\ ret.bx # Null
             /\ boxes' = ret.bx
             /\ passes' = Disturb(passes)
             /\ heap' = Collect(ret.h, Roots(ret.bx, passes, dels))
             /\ lastPass' = <<PassRecord(st.p, ret.h, ret.bx, host)>>
             /\ Issue(<<SaveBoxesCall(ret.bx)>>)
           ELSE
             /\ boxes' = boxes
             /\ passes' = Append(Disturb(passes), st.p)
             /\ heap' = st.h
             /\ lastPass' = lastPass
             /\ UNCHANGED storeVars
        /\ isSyncing' = st.flag
  /\ timeoutId' = timeoutId - 1
  /\ burst' = 0
  /\ UNCHANGED <<expandedSpaceId, nextId, dels, hostVars, envVars, uiReady, edits,
                 tampered>>

DropAt(s, i) == SubSeq(s, 1, i - 1) \o SubSeq(s, i + 1, Len(s))

\* the host performs the pending call of pass i and the pass runs on to its
\* next await, or returns, or throws.  The store's notification for the call
\* reaches the listeners before the call's response does.
PushResume(i) ==
  /\ i \in DOMAIN passes
  /\ events = <<>>
  /\ LET p == passes[i]
         r == HostExec(host, nextChromeId, p.pending)
         L0 == [h |-> heap, bx |-> boxes, exp |-> expandedSpaceId, nid |-> nextId,
                ok |-> TRUE]
         L1 == Listener(L0, r.ev, isSyncing)
         heard == L1 # L0
         st == afterResponse([h |-> L1.h, flag |-> isSyncing, fin |-> FALSE,
                              failed |-> FALSE, ok |-> TRUE,
                              p |-> [p EXCEPT !.solo = @ /\ ~heard]], r)
         ret == Returned(st)
         others == Disturb(DropAt(passes, i))
     IN /\ p.pending.op = "create" => nextChromeId < MaxHost
        /\ L1.ok /\ st.ok
        /\ host' = r.host
        /\ nextChromeId' = r.next
        /\ isSyncing' = st.flag
        /\ nextId' = L1.nid
        /\ expandedSpaceId' = L1.exp
        /\ IF st.failed
           THEN /\ boxes' = L1.bx
                /\ passes' = others
                /\ heap' = Collect(st.h, Roots(L1.bx, others, dels))
                /\ lastPass' = lastPass
                /\ uiReady' = uiReady
                /\ Issue(Heard(L0, L1))
           ELSE IF st.fin
           THEN /\ ret.bx # Null
                /\ boxes' = ret.bx
                /\ passes' = others
                /\ heap' = Collect(ret.h, Roots(ret.bx, others, dels)
                                          \cup Held(Heard(L0, L1)))
                /\ lastPass' = <<PassRecord(st.p, ret.h, ret.bx, r.host)>>
                /\ uiReady' = (uiReady \/ p.kind = "init")
                /\ Issue(Heard(L0, L1) \o <<SaveBoxesCall(ret.bx)>>)
           ELSE /\ boxes' = L1.bx
                /\ passes' = [Disturb(passes) EXCEPT ![i] = st.p]
                /\ heap' = Collect(st.h, Roots(L1.bx, passes', dels))
                /\ lastPass' = lastPass
                /\ uiReady' = uiReady
                /\ Issue(Heard(L0, L1))
  /\ UNCHANGED <<timerVars, dels, events, edits, tampered, envVars>>

\* ------------------------------------- app.js: onDeleteItem / onDelete
\* a variant of the guard that looks at the binding only
nothingToRemove_BoundOnly(api, chromeId) == chromeId = Null

\* removeSpaceFromChrome / removeItemFromChrome return before their try block:
\* `!chrome?.bookmarks || !box.chromeId`
nothingToRemove(api, chromeId) == ~api \/ chromeId = Null

\* removeItemFromChrome(item) up to its await, or the whole handler when the
\* item is not bound
\* a variant that takes a bound item out of the document before the host
\* has been asked to remove its node
onDeleteItem_LocalFirst(boxId, itemId) ==
  /\ uiReady
  /\ edits > 0
  /\ edits' = edits - 1
  /\ LET box == findBox(heap, boxes, boxId)
         item == IF box = Null THEN Null
                 ELSE findItemById(heap, heap[box].kids, itemId)
     IN /\ item # Null
        /\ heap[item].chromeId # Null
        /\ isSyncing' = TRUE
        /\ dels' = Append(dels,
             [kind |-> "item", box |-> box, id |-> itemId,
              pending |-> Call(IF heap[item].kind = "folder"
                               THEN "removeTree" ELSE "remove",
                               heap[item].chromeId, 0, "", "")])
        /\ heap' = Collect(removeItemById(heap, box, itemId).h,
                           Roots(boxes, passes, dels'))
        /\ passes' = Disturb(passes)
  /\ UNCHANGED <<boxes, expandedSpaceId, nextId, timerVars, hostVars, envVars, storeVars, uiReady,
                 lastPass, tampered>>

onDeleteItem(boxId, itemId) ==
  /\ uiReady
  /\ edits > 0
  /\ edits' = edits - 1
  /\ LET box == findBox(heap, boxes, boxId)
         item == IF box = Null THEN Null
                 ELSE findItemById(heap, heap[box].kids, itemId)
     IN IF box = Null
        THEN UNCHANGED <<heap, timerVars, isSyncing, dels, passes>>
        ELSE IF item # Null /\ ~nothingToRemove(bookmarks, heap[item].chromeId)
        THEN /\ isSyncing' = TRUE
             /\ dels' = Append(dels,
                  [kind |-> "item", box |-> box, id |-> itemId,
                   pending |-> Call(IF heap[item].kind = "folder"
                                    THEN "removeTree" ELSE "remove",
                                    heap[item].chromeId, 0, "", "")])
             /\ passes' = Disturb(passes)
             /\ UNCHANGED <<heap, timerVars>>
        ELSE /\ heap' = Collect(removeItemById(heap, box, itemId).h,
                                Roots(boxes, passes, dels))
             /\ timeoutId' = debounce(timeoutId)
             /\ burst' = burst + 1
             /\ passes' = Disturb(passes)
             /\ UNCHANGED <<isSyncing, dels>>
  /\ UNCHANGED <<boxes, expandedSpaceId, nextId, hostVars, envVars, storeVars, uiReady, lastPass,
                 tampered>>

\* removeSpaceFromChrome(box) up to its await, or the whole handler when the
\* space is not bound (or not found: the filter then keeps every space)
onDelete(boxId) ==
  /\ uiReady
  /\ edits > 0
  /\ edits' = edits - 1
  /\ LET box == findBox(heap, boxes, boxId) IN
     IF box # Null /\ ~nothingToRemove(bookmarks, heap[box].chromeId)
     THEN /\ isSyncing' = TRUE
          /\ dels' = Append(dels,
               [kind |-> "space", box |-> box, id |-> boxId,
                pending |-> Call("removeTree", heap[box].chromeId, 0, "", "")])
          /\ passes' = Disturb(passes)
          /\ UNCHANGED <<heap, boxes, expandedSpaceId, storeVars>>
     ELSE LET f == FilterBoxes(heap, boxes, boxId) IN
          /\ f.ok
          /\ Issue(AfterFilter(expandedSpaceId = boxId, FirstBoxId(f.h, f.bx), f.bx))
          /\ boxes' = f.bx
          /\ expandedSpaceId' = IF expandedSpaceId = boxId
                                THEN FirstBoxId(f.h, f.bx) ELSE expandedSpaceId
          /\ heap' = Collect(f.h, Roots(f.bx, passes, dels))
          /\ passes' = Disturb(passes)
          /\ UNCHANGED <<isSyncing, dels>>
  /\ UNCHANGED <<timerVars, nextId, hostVars, envVars, uiReady, lastPass, tampered>>

\* the host removal settles (a failure is caught and logged), the finally
\* block resets isSyncing, and the handler removes the item (and calls save)
\* or the space (and stores the document without a push)
DeleteResume(i) ==
  /\ i \in DOMAIN dels
  /\ events = <<>>
  /\ LET d == dels[i]
         r == HostExec(host, nextChromeId, d.pending)
         L0 == [h |-> heap, bx |-> boxes, exp |-> expandedSpaceId, nid |-> nextId,
                ok |-> TRUE]
         L1 == Listener(L0, r.ev, isSyncing)
         rest == DropAt(dels, i)
     IN /\ L1.ok
        /\ host' = r.host
        /\ nextId' = L1.nid
        /\ isSyncing' = FALSE
        /\ dels' = rest
        /\ passes' = Disturb(passes)
        /\ IF d.kind = "item"
           THEN /\ boxes' = L1.bx
                /\ expandedSpaceId' = L1.exp
                /\ heap' = Collect(removeItemById(L1.h, d.box, d.id).h,
                                   Roots(L1.bx, passes, rest))
                /\ timeoutId' = debounce(timeoutId)
                /\ burst' = burst + 1
                /\ Issue(Heard(L0, L1))
           ELSE LET f == FilterBoxes(L1.h, L1.bx, d.id) IN
                /\ f.ok
                /\ Issue(Heard(L0, L1)
                         \o AfterFilter(L1.exp = d.id, FirstBoxId(f.h, f.bx), f.bx))
                /\ boxes' = f.bx
                /\ expandedSpaceId' = IF L1.exp = d.id
                                      THEN FirstBoxId(f.h, f.bx) ELSE L1.exp
                /\ heap' = Collect(f.h, Roots(f.bx, passes, rest) \cup Held(Heard(L0, L1)))
                /\ UNCHANGED timerVars
  /\ UNCHANGED <<nextChromeId, events, envVars, uiReady, edits, lastPass, tampered>>

\* ------------------------------------------------ the host's other user
\* somebody removes a node (with its subtree) in the browser's own UI
ExternalRemove(n) ==
  /\ edits > 0
  /\ HostHas(host, n)
  /\ LET r == HostExec(host, nextChromeId, Call("removeTree", n, 0, "", ""))
     IN /\ host' = r.host
        /\ events' = Append(events, r.ev)
  /\ edits' = edits - 1
  /\ tampered' = TRUE
  /\ passes' = Disturb(passes)
  /\ UNCHANGED <<docVars, timerVars, isSyncing, dels, nextChromeId, envVars, storeVars, uiReady,
                 lastPass>>

\* somebody adds a bookmark (url # "") or a folder in the browser's own UI
ExternalCreate(parentId, title, url) ==
  /\ edits > 0
  /\ nextChromeId < MaxHost
  /\ LET r == HostExec(host, nextChromeId, Call("create", 0, parentId, title, url))
     IN /\ r.ok
        /\ host' = r.host
        /\ nextChromeId' = r.next
        /\ events' = Append(events, r.ev)
  /\ edits' = edits - 1
  /\ tampered' = TRUE
  /\ passes' = Disturb(passes)
  /\ UNCHANGED <<docVars, timerVars, isSyncing, dels, envVars, storeVars, uiReady, lastPass>>

\* somebody edits the title of a node, or the URL of a bookmark, in the
\* browser's own UI; a title may be left empty
ExternalChange(n, title, url) ==
  /\ edits > 0
  /\ HostHas(host, n)
  /\ url # "" => host[n].url # ""
  /\ LET r == HostExec(host, nextChromeId, Call("update", n, 0, title, url))
     IN /\ host' = r.host
        /\ events' = Append(events, r.ev)
  /\ edits' = edits - 1
  /\ tampered' = TRUE
  /\ passes' = Disturb(passes)
  /\ UNCHANGED <<docVars, timerVars, isSyncing, dels, nextChromeId, envVars, storeVars, uiReady,
                 lastPass>>

\* somebody drags a node into another folder in the browser's own UI
ExternalMove(n, parentId) ==
  /\ edits > 0
  /\ LET r == HostExec(host, nextChromeId, Call("move", n, parentId, "", ""))
     IN /\ r.ok
        /\ host' = r.host
        /\ events' = Append(events, r.ev)
  /\ edits' = edits - 1
  /\ tampered' = TRUE
  /\ passes' = Disturb(passes)
  /\ UNCHANGED <<docVars, timerVars, isSyncing, dels, nextChromeId, envVars, storeVars, uiReady,
                 lastPass>>

\* a notification reaches the listeners of setupChromeListeners
Deliver ==
  /\ bookmarks
  /\ events # <<>>
  /\ LET L0 == [h |-> heap, bx |-> boxes, exp |-> expandedSpaceId, nid |-> nextId,
                ok |-> TRUE]
         L1 == Listener(L0, Head(events), isSyncing)
     IN /\ L1.ok
        /\ boxes' = L1.bx
        /\ expandedSpaceId' = L1.exp
        /\ nextId' = L1.nid
        /\ heap' = Collect(L1.h, Roots(L1.bx, passes, dels))
        /\ passes' = IF L1 = L0 THEN passes ELSE Disturb(passes)
        /\ Issue(Heard(L0, L1))
  /\ events' = Tail(events)
  /\ UNCHANGED <<timerVars, isSyncing, dels, host, nextChromeId, envVars, uiReady, edits,
                 lastPass, tampered>>

\* ------------------------------------------------- sync specification
\* what loadData() can return: a space "a" holding a bookmark and an empty
\* folder, either never pushed (no chromeId) or mirrored in the host store
LoadedHeap(bound) ==
  [a \in Addr |->
     CASE a = 1 -> [NoObj EXCEPT !.kind = "root", !.kids = <<2>>]
       [] a = 2 -> [createEmptyBox(1) EXCEPT !.kids = <<3, 4>>,
                                             !.chromeId = IF bound THEN 2 ELSE Null]
       [] a = 3 -> [createBookmark(2) EXCEPT !.chromeId = IF bound THEN 3 ELSE Null]
       [] a = 4 -> [createFolder(3) EXCEPT !.chromeId = IF bound THEN 4 ELSE Null]
       [] OTHER -> NoObj]

LoadedHost(bound) ==
  [n \in HostIds |->
     IF ~bound THEN NoNode
     ELSE CASE n = 2 -> [exists |-> TRUE, parentId |-> BOOKMARKS_BAR_ID,
                         title |-> "a", url |-> ""]
            [] n = 3 -> [exists |-> TRUE, parentId |-> 2, title |-> "a", url |-> "u"]
            [] n = 4 -> [exists |-> TRUE, parentId |-> 2, title |-> "a", url |-> ""]
            [] OTHER -> NoNode]

\* init(): the document is loaded, the listeners are registered and the first
\* push pass is at its first await; the user handlers are attached after it
LoadedPage(bound, budget) ==
  LET st == StartPass(LoadedHeap(bound), 1, "init", FALSE, LoadedHost(bound)) IN
  /\ heap = st.h
  /\ boxes = 1
  /\ expandedSpaceId = 1
  /\ timeoutId = 0
  /\ burst = 0
  /\ nextId = 3
  /\ isSyncing = st.flag
  /\ passes = <<st.p>>
  /\ dels = <<>>
  /\ host = LoadedHost(bound)
  /\ nextChromeId = IF bound THEN 4 ELSE BOOKMARKS_BAR_ID
  /\ events = <<>>
  /\ uiReady = FALSE
  /\ edits = budget
  /\ lastPass = <<>>
  /\ tampered = FALSE
  /\ bookmarks = TRUE
  /\ jsonContent = NoContent
  /\ html = NoFile

\* the same, in the specifications that do not follow storage
Loaded(bound, budget) ==
  /\ LoadedPage(bound, budget)
  /\ stored = NoStore
  /\ io = <<>>

Init == \E bound \in BOOLEAN : Loaded(bound, SyncEdits)

Next ==
  \/ TimerFire
  \/ \E i \in 1..MaxPasses : PushResume(i)
  \/ \E i \in 1..SyncEdits : DeleteResume(i)
  \/ Deliver
  \/ \E n \in HostIds : ExternalRemove(n)
  \/ \E par \in HostIds : ExternalCreate(par, "b", "v")
  \/ \E b \in BoxIdArgs, i \in ItemIdArgs, n \in Names : onItemNameChange(b, i, n)
  \/ \E s \in BoxIdArgs, i \in ItemIdArgs, t \in BoxIdArgs,
        par \in ItemIdArgs \cup {Null} : onMoveItem(s, i, t, par)
  \/ \E b \in BoxIdArgs, i \in ItemIdArgs : onDeleteItem(b, i)
  \/ \E b \in BoxIdArgs : onDelete(b)

Spec == Init /\ [][Next]_vars

\* ------------------------------------------- local-edit specification
\* a mirrored document, one user who renames and drags items onto the space,
\* and nobody else touching the host store: one more intent than in Spec
InitLocal == Loaded(TRUE, LocalEdits)

NextLocal ==
  \/ TimerFire
  \/ \E i \in 1..MaxPasses : PushResume(i)
  \/ \E b \in BoxIdArgs, i \in ItemIdArgs : onItemNameChange(b, i, "b")
  \/ \E s \in BoxIdArgs, i \in ItemIdArgs, t \in BoxIdArgs : onMoveItem(s, i, t, Null)

SpecLocal == InitLocal /\ [][NextLocal]_vars

\* ------------------------------------------- intents specification
\* the stored document of LoadedHeap opened without chrome.bookmarks: every
\* intent of the handlers table, with identities that resolve and identities
\* that do not
InitIntents ==
  /\ heap = LoadedHeap(FALSE)
  /\ boxes = 1
  /\ expandedSpaceId = 1
  /\ timeoutId = 0
  /\ burst = 0
  /\ nextId = 3
  /\ isSyncing = FALSE
  /\ passes = <<>>
  /\ dels = <<>>
  /\ host = [n \in HostIds |-> NoNode]
  /\ nextChromeId = BOOKMARKS_BAR_ID
  /\ events = <<>>
  /\ uiReady = TRUE
  /\ edits = IntentEdits
  /\ lastPass = <<>>
  /\ tampered = FALSE
  /\ bookmarks = FALSE
  /\ jsonContent = NoContent
  /\ html = NoFile
  /\ stored = NoStore
  /\ io = <<>>

NextIntents ==
  \/ \E b \in BoxIdArgs, p \in ItemIdArgs \cup {Null} : onAddFolder(b, p)
  \/ \E b \in BoxIdArgs, p \in ItemIdArgs \cup {Null} : onAddBookmark(b, p)
  \/ \E b \in BoxIdArgs : onTitleChange(b, "b")
  \/ \E b \in BoxIdArgs : onColorChange(b, "blue")
  \/ \E b \in BoxIdArgs, i \in ItemIdArgs : onItemNameChange(b, i, "b")
  \/ \E b \in BoxIdArgs, i \in ItemIdArgs : onItemUrlChange(b, i, "v")
  \/ \E b \in BoxIdArgs, i \in ItemIdArgs : onToggleExpand(b, i)
  \/ \E b \in BoxIdArgs, i \in ItemIdArgs : onDeleteItem(b, i)
  \/ \E b \in BoxIdArgs : onDelete(b)
  \/ \E s \in BoxIdArgs, i \in ItemIdArgs, t \in BoxIdArgs,
        p \in ItemIdArgs \cup {Null} : onMoveItem(s, i, t, p)
  \/ \E s \in BoxIdArgs, i \in ItemIdArgs, t \in BoxIdArgs, x \in ItemIdArgs,
        pos \in Positions : onReorderItem(s, i, t, x, pos)
  \/ SaveReload

SpecIntents == InitIntents /\ [][NextIntents]_vars

\* ------------------------------------------- offline specification
\* the mirrored document of Loaded opened where chrome.bookmarks is not
\* there: init() got its document back from syncAllSpacesToChrome at once
InitOffline ==
  /\ heap = LoadedHeap(TRUE)
  /\ boxes = 1
  /\ expandedSpaceId = 1
  /\ timeoutId = 0
  /\ burst = 0
  /\ nextId = 3
  /\ isSyncing = FALSE
  /\ passes = <<>>
  /\ dels = <<>>
  /\ host = LoadedHost(TRUE)
  /\ nextChromeId = 4
  /\ events = <<>>
  /\ uiReady = TRUE
  /\ edits = OfflineEdits
  /\ lastPass = <<>>
  /\ tampered = FALSE
  /\ bookmarks = FALSE
  /\ jsonContent = NoContent
  /\ html = NoFile
  /\ stored = NoStore
  /\ io = <<>>

NextOffline ==
  \/ NextIntents
  \/ handleAddBox

SpecOffline == InitOffline /\ [][NextOffline]_vars

\* ------------------------------------------- utils.js: parseArcJson
\* an item of Arc's StorableSidebar.json: `tab` tells whether data.tab is
\* there, savedURL and savedTitle are its fields ("" when missing)
ArcItem(id, title, parentID, childrenIds, tab, savedTitle, savedURL) ==
  [id |-> id, title |-> title, parentID |-> parentID, childrenIds |-> childrenIds,
   tab |-> tab, savedTitle |-> savedTitle, savedURL |-> savedURL]

NoItem == ArcItem("", "", "", <<>>, FALSE, "", "")

\* masterItemMap with itemChangeDates: the keys in insertion order
EmptyMap ==
  [keys |-> <<>>, get |-> [id \in ArcIds |-> NoItem], date |-> [id \in ArcIds |-> 0]]

\* `itemChangeDates.get(id) || 0` is m.date[id]
addItemIfNewer(m, id, item, lastChangeDate) ==
  IF lastChangeDate > m.date[id]
  THEN [keys |-> IF id \in Range(m.keys) THEN m.keys ELSE Append(m.keys, id),
        get |-> [m.get EXCEPT ![id] = item],
        date |-> [m.date EXCEPT ![id] = lastChangeDate]]
  ELSE m

\* the loops over firebaseSyncState.syncData.items and sidebar.items: an entry
\* is {value, lastChangeDate}, a missing date reads as 0
RECURSIVE addEntries(_, _)
addEntries(m, entries) ==
  IF entries = <<>> THEN m
  ELSE addEntries(addItemIfNewer(m, Head(entries).value.id, Head(entries).value,
                                 Head(entries).lastChangeDate),
                  Tail(entries))

\* the loop over container.items: the current state, dated MAX_SAFE_INTEGER
RECURSIVE addCurrent(_, _)
addCurrent(m, items) ==
  IF items = <<>> THEN m
  ELSE addCurrent(addItemIfNewer(m, Head(items).id, Head(items), MAX_SAFE_INTEGER),
                  Tail(items))

NoTree == [kind |-> "none"]

\* buildArcNode: `item.data?.tab?.savedURL`
isBookmark(item) == item.tab /\ item.savedURL # ""

\* a variant that takes a titled item for a folder whatever data.tab holds
isFolder_TabToo(item) == item.title # "" \/ Len(item.childrenIds) > 0

\* buildArcNode: `(item.title || item.childrenIds?.length) && !item.data?.tab`
isFolder(item) == (item.title # "" \/ Len(item.childrenIds) > 0) /\ ~item.tab

\* buildArcNode, the bookmark it returns
arcBookmark(item, id) ==
  [kind |-> "bookmark", id |-> id,
   name |-> IF item.title # "" THEN item.title
            ELSE IF item.savedTitle # "" THEN item.savedTitle
            ELSE "Untitled",
   url |-> item.savedURL, color |-> "", chromeId |-> Null,
   expanded |-> FALSE, kids |-> <<>>]

\* buildArcNode, the folder it returns once its children are built: the
\* folder's identity is generated after theirs
arcFolder(item, children) ==
  [node |-> [kind |-> "folder", id |-> children.nid + 1,
             name |-> IF item.title # "" THEN item.title ELSE "Folder",
             url |-> "", color |-> "", chromeId |-> Null,
             expanded |-> TRUE, kids |-> children.nodes],
   nid |-> children.nid + 1,
   seen |-> children.seen \cup {item.id}]

\* buildArcNode, `if (childNode) children.push(childNode)` ahead of the
\* nodes of the later children
pushChild(r, rest) ==
  [nodes |-> IF r.node = NoTree THEN rest.nodes ELSE <<r.node>> \o rest.nodes,
   nid |-> rest.nid,
   seen |-> r.seen \cup rest.seen]

RECURSIVE buildArcNode(_, _, _)
RECURSIVE buildChildren(_, _, _)
RECURSIVE laterChildren(_, _, _)

\* buildArcNode(item, itemMap) with the identities generateId() hands out:
\* the node (NoTree for null), the last identity used and the items the
\* function was called for
buildArcNode(item, m, nid) ==
  IF isBookmark(item)
  THEN [node |-> arcBookmark(item, nid + 1), nid |-> nid + 1, seen |-> {item.id}]
  ELSE IF isFolder(item) THEN arcFolder(item, buildChildren(item.childrenIds, m, nid))
  ELSE [node |-> NoTree, nid |-> nid, seen |-> {item.id}]

\* buildArcNode's loop over item.childrenIds: the nodes and the last
\* identity used; a child the map does not hold is passed over
buildChildren(childrenIds, m, nid) ==
  IF childrenIds = <<>> THEN [nodes |-> <<>>, nid |-> nid, seen |-> {}]
  ELSE laterChildren(IF Head(childrenIds) \in Range(m.keys)
                     THEN buildArcNode(m.get[Head(childrenIds)], m, nid)
                     ELSE [node |-> NoTree, nid |-> nid, seen |-> {}],
                     Tail(childrenIds), m)

\* the rest of that loop once the child r is built
laterChildren(r, childrenIds, m) == pushChild(r, buildChildren(childrenIds, m, r.nid))

\* a variant that puts every node before the ones found so far
pushNode_Unshift(acc, id, r) ==
  IF r.node = NoTree THEN [acc EXCEPT !.seen = @ \cup r.seen]
  ELSE [acc EXCEPT !.result = <<r.node>> \o @,
                   !.processedIds = @ \cup {id},
                   !.nid = r.nid,
                   !.seen = @ \cup r.seen]

\* buildArcItemTree: `if (node) { result.push(node); processedIds.add(id) }`;
\* acc is [result, processedIds, nid, seen, thrown]
pushNode(acc, id, r) ==
  IF r.node = NoTree THEN [acc EXCEPT !.seen = @ \cup r.seen]
  ELSE [acc EXCEPT !.result = Append(@, r.node),
                   !.processedIds = @ \cup {id},
                   !.nid = r.nid,
                   !.seen = @ \cup r.seen]

\* buildArcItemTree, the inner loop over containerItem.childrenIds
RECURSIVE orderedChildren(_, _, _)
orderedChildren(childrenIds, m, acc) ==
  IF childrenIds = <<>> THEN acc
  ELSE orderedChildren(Tail(childrenIds), m,
         IF Head(childrenIds) \notin acc.processedIds /\ Head(childrenIds) \in Range(m.keys)
         THEN pushNode(acc, Head(childrenIds),
                       buildArcNode(m.get[Head(childrenIds)], m, acc.nid))
         ELSE acc)

\* buildArcItemTree, the loop over containerIds
RECURSIVE orderedRoots(_, _, _)
orderedRoots(containerIds, m, acc) ==
  IF containerIds = <<>> THEN acc
  ELSE orderedRoots(Tail(containerIds), m,
         IF Head(containerIds) \in Range(m.keys)
         THEN orderedChildren(m.get[Head(containerIds)].childrenIds, m, acc)
         ELSE acc)

\* a variant of the fallback that takes every entry of itemMap
RECURSIVE byParent_Any(_, _, _, _)
byParent_Any(keys, containerIds, m, acc) ==
  IF keys = <<>> THEN acc
  ELSE byParent_Any(Tail(keys), containerIds, m,
         IF Head(keys) \notin acc.processedIds
         THEN pushNode(acc, Head(keys), buildArcNode(m.get[Head(keys)], m, acc.nid))
         ELSE acc)

\* buildArcItemTree, the fallback loop over the entries of itemMap
RECURSIVE byParent(_, _, _, _)
byParent(keys, containerIds, m, acc) ==
  IF keys = <<>> THEN acc
  ELSE byParent(Tail(keys), containerIds, m,
         IF m.get[Head(keys)].parentID \in Range(containerIds)
            /\ Head(keys) \notin acc.processedIds
         THEN pushNode(acc, Head(keys), buildArcNode(m.get[Head(keys)], m, acc.nid))
         ELSE acc)

\* the items buildArcNode is called for when it starts at the items ids:
\* these, and the children, in the map, of the folders among them
RECURSIVE Visited(_, _, _)
Visited(m, frontier, seen) ==
  IF frontier = {} THEN seen
  ELSE Visited(m,
         UNION {Range(m.get[x].childrenIds) \cap Range(m.keys) :
                  x \in {y \in frontier : ~isBookmark(m.get[y]) /\ isFolder(m.get[y])}}
           \ (seen \cup frontier),
         seen \cup frontier)

\* buildArcNode performs no cycle protection: started at one of the items
\* ids it reaches a folder that lies below itself and recurses until the
\* engine's call stack is exhausted (RangeError)
recursesForever(m, ids) ==
  \E x \in Visited(m, ids, {}) :
    /\ ~isBookmark(m.get[x]) /\ isFolder(m.get[x])
    /\ x \in Visited(m, Range(m.get[x].childrenIds) \cap Range(m.keys), {})

\* buildArcItemTree: `if (result.length === 0)` the fallback runs
orFallback(found, m, containerIds) ==
  IF found.result # <<>> THEN found
  ELSE IF recursesForever(m, {id \in Range(m.keys) :
                                m.get[id].parentID \in Range(containerIds)})
  THEN [found EXCEPT !.thrown = TRUE]
  ELSE byParent(m.keys, containerIds, m, found)

\* buildArcItemTree(itemMap, containerIds): the items, the last identity
\* used, the items buildArcNode was called for, and whether it threw
buildArcItemTree(m, containerIds, nid) ==
  IF recursesForever(m, UNION {Range(m.get[c].childrenIds) \cap Range(m.keys) :
                                 c \in Range(containerIds) \cap Range(m.keys)})
  THEN [result |-> <<>>, processedIds |-> {}, nid |-> nid, seen |-> {}, thrown |-> TRUE]
  ELSE orFallback(orderedRoots(containerIds, m,
                    [result |-> <<>>, processedIds |-> {}, nid |-> nid, seen |-> {},
                     thrown |-> FALSE]),
                  m, containerIds)

\* parseArcJson: `if (spaceItems.length > 0) spaces.push({title, items, color})`;
\* acc is [m, spaces, nid, thrown]
pushSpace(acc, spaceEntry, built) ==
  IF built.thrown THEN [acc EXCEPT !.thrown = TRUE]
  ELSE IF built.result = <<>> THEN acc
  ELSE [acc EXCEPT !.spaces = Append(@,
                     [title |-> IF spaceEntry.title # "" THEN spaceEntry.title
                                ELSE "Space",
                      items |-> built.result,
                      color |-> spaceEntry.color]),
                   !.nid = built.nid]

\* parseArcJson, the loop over container.spaces (the entries that are not
\* strings): `spaceEntry.title` throws a TypeError for an entry that is null
RECURSIVE parseSpaces(_, _)
parseSpaces(spaceEntries, acc) ==
  IF spaceEntries = <<>> \/ acc.thrown THEN acc
  ELSE IF Head(spaceEntries).null THEN [acc EXCEPT !.thrown = TRUE]
  ELSE parseSpaces(Tail(spaceEntries),
         pushSpace(acc, Head(spaceEntries),
           buildArcItemTree(acc.m,
             Head(spaceEntries).containerIDs \o Head(spaceEntries).newContainerIDs,
             acc.nid)))

\* parseArcJson, the loop over sidebar.containers
RECURSIVE parseContainers(_, _)
parseContainers(containers, acc) ==
  IF containers = <<>> \/ acc.thrown THEN acc
  ELSE parseContainers(Tail(containers),
         IF ~Head(containers).hasSpaces THEN acc
         ELSE parseSpaces(Head(containers).spaces,
                [acc EXCEPT !.m = addCurrent(@, Head(containers).items)]))

\* parseArcJson(jsonString) with the identities generateId() hands out from
\* nid on: the reduced item map, the spaces, the last identity used and
\* whether the function threw (JSON.parse throws a SyntaxError for a text
\* that is not JSON)
parseArcJson(content, nid) ==
  IF ~content.valid
  THEN [m |-> EmptyMap, spaces |-> <<>>, nid |-> nid, thrown |-> TRUE]
  ELSE parseContainers(content.containers,
         [m |-> addEntries(addEntries(EmptyMap, content.sync), content.sidebar),
          spaces |-> <<>>, nid |-> nid, thrown |-> FALSE])

\* createBoxesFromArcSpaces(spaces): `space.color || COLORS[index % n]`
RECURSIVE createBoxesFromArcSpaces(_, _)
createBoxesFromArcSpaces(spaces, nid) ==
  IF spaces = <<>> THEN <<>>
  ELSE <<[kind |-> "space", id |-> nid + 1, name |-> Head(spaces).title, url |-> "",
          color |-> IF Head(spaces).color # "" THEN Head(spaces).color ELSE "red",
          chromeId |-> Null, expanded |-> FALSE, kids |-> Head(spaces).items]>>
       \o createBoxesFromArcSpaces(Tail(spaces), nid + 1)

\* the objects of the trees ts
RECURSIVE Size(_)
Size(ts) == IF ts = <<>> THEN 0 ELSE 1 + Size(Head(ts).kids) + Size(Tail(ts))

\* the object at address a gets the children installed for it
linkKids(a, inner) == [inner.h EXCEPT ![a].kids = inner.at]

\* the root at address a ahead of the roots installed after it
consRoot(a, rest) == [h |-> rest.h, at |-> <<a>> \o rest.at]

\* the trees ts as objects of heap h: the heap and the addresses of the roots
RECURSIVE Install(_, _)
Install(ts, h) ==
  IF ts = <<>> THEN [h |-> h, at |-> <<>>]
  ELSE consRoot(Alloc(h),
         Install(Tail(ts),
           linkKids(Alloc(h),
             Install(Head(ts).kids,
                     [h EXCEPT ![Alloc(h)] = [Head(ts) EXCEPT !.kids = <<>>]]))))

\* ------------------------------------------- app.js: handleArcImport
\* handleArcImport: `boxes.push(...newBoxes)`, the first of them expanded
pushBoxes(bx, put, newBoxes, nid) ==
  [h |-> [put.h EXCEPT ![bx].kids = @ \o put.at],
   exp |-> newBoxes[1].id,
   nid |-> nid + Len(newBoxes),
   saved |-> TRUE]

\* a variant that appends the spaces parsed before an exception
importSpaces_Partial(h, bx, exp, nid, parsed) ==
  IF parsed.spaces = <<>>
  THEN [h |-> h, exp |-> exp, nid |-> nid, saved |-> FALSE]
  ELSE pushBoxes(bx, Install(createBoxesFromArcSpaces(parsed.spaces, parsed.nid), h),
                 createBoxesFromArcSpaces(parsed.spaces, parsed.nid), parsed.nid)

\* handleArcImport once parseArcJson has returned or thrown: the catch block
\* only reports, and nothing happens without spaces
importSpaces(h, bx, exp, nid, parsed) ==
  IF parsed.thrown \/ parsed.spaces = <<>>
  THEN [h |-> h, exp |-> exp, nid |-> nid, saved |-> FALSE]
  ELSE pushBoxes(bx, Install(createBoxesFromArcSpaces(parsed.spaces, parsed.nid), h),
                 createBoxesFromArcSpaces(parsed.spaces, parsed.nid), parsed.nid)

\* a variant that leaves out the spaces whose title the document has already
ArcImport_SkipKnown(h, bx, exp, nid, content) ==
  importSpaces(h, bx, exp, nid,
    [parseArcJson(content, nid) EXCEPT !.spaces = SelectSeq(@, LAMBDA sp :
       sp.title \notin {h[a].name : a \in Range(h[bx].kids)})])

\* the document after handleArcImport(content): the heap, expandedSpaceId,
\* the last identity used and whether save() was reached
ArcImport(h, bx, exp, nid, content) ==
  importSpaces(h, bx, exp, nid, parseArcJson(content, nid))

\* the heap has room for the objects made of the parsed spaces
Fits(h, parsed) ==
  /\ Size(createBoxesFromArcSpaces(parsed.spaces, parsed.nid)) <= Cardinality(FreeAddrs(h))
  /\ parsed.nid + Len(parsed.spaces) <= MaxImportIds

\* the heap has room for the objects one import of content makes
Importable(h, nid, content) == Fits(h, parseArcJson(content, nid))

\* handleArcImport, the assignments and the save()
Imported(r) ==
  /\ LocalSave(r.h, r.saved, IF r.saved THEN <<SaveExpandedCall(r.exp)>> ELSE <<>>)
  /\ expandedSpaceId' = r.exp
  /\ nextId' = r.nid

handleArcImport ==
  /\ Importable(heap, nextId, jsonContent)
  /\ Imported(ArcImport(heap, boxes, expandedSpaceId, nextId, jsonContent))

\* ------------------------------------------- import specification
\* the exports: a space (or two) over the root containers p and q, the
\* bookmark a in up to three versions (sync-state, sidebar, current state),
\* the item b, the bookmark c, and the identity z that no record carries
SyncDates == {-1, 0, 10, 20}    \* -1: no such entry; 0: an entry without a date

Wrapped(item, date) ==
  IF date = -1 THEN <<>> ELSE <<[value |-> item, lastChangeDate |-> date]>>

ChildLists == {<<"a", "b">>, <<"b", "a">>, <<"a", "z", "b">>, <<>>}

ItemB(variant) ==
  CASE variant = "folder" -> ArcItem("b", "f", "p", <<"c", "z", "a">>, FALSE, "", "")
    [] variant = "unnamed" -> ArcItem("b", "", "p", <<"a", "c">>, FALSE, "", "")
    [] variant = "empty" -> ArcItem("b", "", "p", <<>>, FALSE, "", "")
    [] variant = "tab" -> ArcItem("b", "f", "p", <<>>, TRUE, "", "")
    [] variant = "self" -> ArcItem("b", "f", "p", <<"a", "b">>, FALSE, "", "")
    [] variant = "up" -> ArcItem("b", "f", "p", <<"p">>, FALSE, "", "")

SpaceEntry(title, containerIDs, newContainerIDs) ==
  [null |-> FALSE, title |-> title, color |-> "", containerIDs |-> containerIDs,
   newContainerIDs |-> newContainerIDs]

Layout(l) ==
  CASE l = "old" -> <<SpaceEntry("s", <<"p", "q">>, <<>>)>>
    [] l = "both" -> <<SpaceEntry("", <<"p", "q">>, <<"p", "q">>)>>
    [] l = "two" -> <<SpaceEntry("s", <<>>, <<"p">>), SpaceEntry("r", <<>>, <<"q">>)>>
    [] l = "null" -> <<SpaceEntry("s", <<>>, <<"p">>),
                       [SpaceEntry("", <<>>, <<>>) EXCEPT !.null = TRUE]>>

Export(ds, dd, cur, b, cparent, p, q, l) ==
  [valid |-> TRUE,
   sync |-> Wrapped(ArcItem("a", "old", "p", <<>>, TRUE, "s", "u"), ds),
   sidebar |-> Wrapped(ArcItem("a", "", "p", <<>>, TRUE, "s", "u"), dd),
   containers |->
     <<[hasSpaces |-> FALSE, spaces |-> <<>>, items |-> <<>>],
       [hasSpaces |-> TRUE, spaces |-> Layout(l),
        items |->
          (IF p = <<"z">> THEN <<>> ELSE <<ArcItem("p", "", "", p, FALSE, "", "")>>)
          \o (IF q = <<"z">> THEN <<>> ELSE <<ArcItem("q", "", "", q, FALSE, "", "")>>)
          \o (IF cur THEN <<ArcItem("a", "", "p", <<>>, TRUE, "", "u")>> ELSE <<>>)
          \o <<ItemB(b), ArcItem("c", "t", cparent, <<>>, TRUE, "", "u")>>]>>]

Files ==
  {Export(ds, dd, cur, b, cparent, p, q, l) :
     ds \in SyncDates, dd \in SyncDates, cur \in BOOLEAN,
     b \in {"folder", "unnamed", "empty", "tab"}, cparent \in {"b", "q"},
     p \in ChildLists \cup {<<"z">>}, q \in {<<"c">>, <<>>, <<"z">>},
     l \in {"old", "both", "two"}}

\* a fresh install on the development page and a StorableSidebar.json to import
InitImport ==
  /\ heap = EmptyHeap
  /\ boxes = 1
  /\ expandedSpaceId = Null
  /\ timeoutId = 0
  /\ burst = 0
  /\ nextId = 0
  /\ isSyncing = FALSE
  /\ passes = <<>>
  /\ dels = <<>>
  /\ host = [n \in HostIds |-> NoNode]
  /\ nextChromeId = BOOKMARKS_BAR_ID
  /\ events = <<>>
  /\ uiReady = TRUE
  /\ edits = ImportEdits
  /\ lastPass = <<>>
  /\ tampered = FALSE
  /\ bookmarks = FALSE
  /\ jsonContent \in Files
  /\ html = NoFile
  /\ stored = NoStore
  /\ io = <<>>

NextImport ==
  \/ handleArcImport
  \/ SaveReload

SpecImport == InitImport /\ [][NextImport]_vars

\* ------------------------------------------- faulty-file specification
\* exports of which some cannot be imported: a text that is not JSON, a null
\* among the space entries (after a space that parses), a folder that lists
\* itself, a folder that lists the container it lies in; and exports that
\* can, among them nested folders and two spaces
FaultyFiles ==
  {Export(-1, dd, TRUE, b, cparent, p, q, l) :
     dd \in {-1, 10}, b \in {"folder", "self", "up", "empty"}, cparent \in {"b", "q"},
     p \in ChildLists \cup {<<"z">>}, q \in {<<"c">>, <<>>},
     l \in {"old", "two", "null"}}
  \cup {[NoContent EXCEPT !.valid = FALSE]}

InitFaulty ==
  /\ heap = EmptyHeap
  /\ boxes = 1
  /\ expandedSpaceId = Null
  /\ timeoutId = 0
  /\ burst = 0
  /\ nextId = 0
  /\ isSyncing = FALSE
  /\ passes = <<>>
  /\ dels = <<>>
  /\ host = [n \in HostIds |-> NoNode]
  /\ nextChromeId = BOOKMARKS_BAR_ID
  /\ events = <<>>
  /\ uiReady = TRUE
  /\ edits = ImportEdits
  /\ lastPass = <<>>
  /\ tampered = FALSE
  /\ bookmarks = FALSE
  /\ jsonContent \in FaultyFiles
  /\ html = NoFile
  /\ stored = NoStore
  /\ io = <<>>

NextFaulty ==
  \/ handleArcImport
  \/ SaveReload

SpecFaulty == InitFaulty /\ [][NextFaulty]_vars

\* ------------------------------------------- utils.js: parseBookmarksHtml
\* an element of the document DOMParser makes of the file: its tag name, its
\* textContent, its HREF attribute (if it has one) and its child elements
El(tag, text, kids) ==
  [tag |-> tag, text |-> text, hasHref |-> FALSE, href |-> "", kids |-> kids]

\* querySelector finds nothing
NoElement == El("none", "", <<>>)

\* `child.querySelector(':scope > TAG')`: the first child element of that tag
RECURSIVE scopeChild(_, _)
scopeChild(kids, tag) ==
  IF kids = <<>> THEN NoElement
  ELSE IF Head(kids).tag = tag THEN Head(kids)
  ELSE scopeChild(Tail(kids), tag)

\* String.prototype.trim on the texts of the documents below
Blanks ==
  [s \in {" Work ", "Docs ", " "} |->
     CASE s = " Work " -> "Work" [] s = "Docs " -> "Docs" [] s = " " -> ""]

trim(s) == IF s \in DOMAIN Blanks THEN Blanks[s] ELSE s

\* `a.getAttribute('HREF') || ''`
hrefOf(a) == IF a.hasHref THEN a.href ELSE ""

\* parseDlElement, the bookmark it pushes for a term with a link
htmlBookmark(a, nid, next) ==
  [items |-> <<[kind |-> "bookmark", id |-> nid + 1, name |-> trim(a.text),
                url |-> hrefOf(a), color |-> "", chromeId |-> Null,
                expanded |-> FALSE, kids |-> <<>>]>>,
   nid |-> nid + 1, next |-> next]

\* parseDlElement, the folder it pushes for a term with a heading: its
\* identity is generated before those of its children
htmlFolder(h3, id, children, next) ==
  [items |-> <<[kind |-> "folder", id |-> id, name |-> trim(h3.text),
                url |-> "", color |-> "", chromeId |-> Null,
                expanded |-> TRUE, kids |-> children.items]>>,
   nid |-> children.nid, next |-> next]

\* a variant that looks for the list among the term's children only
nestedDl_ChildOnly(children, i, inside) == [dl |-> inside, skip |-> 0]

\* parseDlElement, `nestedDl`: the list among the term's children, else the
\* list that is the next sibling (which the loop then skips)
nestedDl(children, i, inside) ==
  IF inside # NoElement THEN [dl |-> inside, skip |-> 0]
  ELSE IF i + 1 <= Len(children) /\ children[i + 1].tag = "DL"
       THEN [dl |-> children[i + 1], skip |-> 1]
       ELSE [dl |-> NoElement, skip |-> 0]

\* the items ahead of the items the later children give
pushItems(r, rest) == [items |-> r.items \o rest.items, nid |-> rest.nid]

RECURSIVE parseDlElement(_, _)
RECURSIVE parseChildren(_, _, _)
RECURSIVE laterTerms(_, _)
RECURSIVE parseFolder(_, _, _, _)
RECURSIVE parseTerm(_, _, _)

\* parseDlElement, one round of the loop: what children[i] pushes, the last
\* identity used and the index the loop goes on with
parseTerm(children, i, nid) ==
  IF children[i].tag # "DT" THEN [items |-> <<>>, nid |-> nid, next |-> i + 1]
  ELSE IF scopeChild(children[i].kids, "H3") # NoElement
       THEN parseFolder(scopeChild(children[i].kids, "H3"), nid + 1, i,
                        nestedDl(children, i, scopeChild(children[i].kids, "DL")))
       ELSE IF scopeChild(children[i].kids, "A") # NoElement
            THEN htmlBookmark(scopeChild(children[i].kids, "A"), nid, i + 1)
            ELSE [items |-> <<>>, nid |-> nid, next |-> i + 1]

parseFolder(h3, id, i, nest) ==
  htmlFolder(h3, id,
             IF nest.dl = NoElement THEN [items |-> <<>>, nid |-> id]
             ELSE parseDlElement(nest.dl, id),
             i + 1 + nest.skip)

laterTerms(children, r) == pushItems(r, parseChildren(children, r.next, r.nid))

\* parseDlElement, the loop from children[i] on
parseChildren(children, i, nid) ==
  IF i > Len(children) THEN [items |-> <<>>, nid |-> nid]
  ELSE laterTerms(children, parseTerm(children, i, nid))

\* parseDlElement(dl): the items and the last identity used
parseDlElement(dl, nid) == parseChildren(dl.kids, 1, nid)

\* `doc.querySelector('DL')`: the first list of the document, in tree order
RECURSIVE querySelectorDL(_)
querySelectorDL(els) ==
  IF els = <<>> THEN NoElement
  ELSE IF Head(els).tag = "DL" THEN Head(els)
  ELSE IF querySelectorDL(Head(els).kids) # NoElement
       THEN querySelectorDL(Head(els).kids)
       ELSE querySelectorDL(Tail(els))

\* parseBookmarksHtml(html): no list, no items
parseRoot(rootDl, nid) ==
  IF rootDl = NoElement THEN [items |-> <<>>, nid |-> nid]
  ELSE parseDlElement(rootDl, nid)

parseBookmarksHtml(body, nid) == parseRoot(querySelectorDL(body), nid)

\* handleHtmlImport: `filename.replace(/\.[^/.]+$/, '').replace(/_/g, ' ')`
\* on the file names below
Titles ==
  [f \in {"bookmarks.html", "my_links.html"} |->
     IF f = "bookmarks.html" THEN "bookmarks" ELSE "my links"]

\* utils.js COLORS, of which createBoxFromBookmarks takes one at random
COLORS == {"red", "blue"}

\* createBoxFromBookmarks(items, title): the identity is generated last
createBoxFromBookmarks(parsed, title, color) ==
  <<[kind |-> "space", id |-> parsed.nid + 1, name |-> title, url |-> "",
     color |-> color, chromeId |-> Null, expanded |-> FALSE,
     kids |-> parsed.items]>>

\* handleHtmlImport once parseBookmarksHtml has returned
pushImported(h, bx, exp, nid, parsed, newBox) ==
  IF parsed.items = <<>>
  THEN [h |-> h, exp |-> exp, nid |-> parsed.nid, saved |-> FALSE]
  ELSE pushBoxes(bx, Install(newBox, h), newBox, parsed.nid)

\* the document after handleHtmlImport(html, filename)
HtmlImport(h, bx, exp, nid, file, color) ==
  pushImported(h, bx, exp, nid, parseBookmarksHtml(file.body, nid),
    createBoxFromBookmarks(parseBookmarksHtml(file.body, nid), Titles[file.name], color))

\* the heap has room for the objects one import of the file makes
HtmlFits(h, nid, parsed) ==
  /\ 1 + Size(parsed.items) <= Cardinality(FreeAddrs(h))
  /\ parsed.nid + 1 <= MaxImportIds

handleHtmlImport ==
  /\ HtmlFits(heap, nextId, parseBookmarksHtml(html.body, nextId))
  /\ \E color \in COLORS :
       Imported(HtmlImport(heap, boxes, expandedSpaceId, nextId, html, color))

\* ------------------------------------------- bookmark-file specification
H3(text) == El("H3", text, <<>>)
A(text, href) == [El("A", text, <<>>) EXCEPT !.hasHref = TRUE, !.href = href]
DT(kids) == El("DT", "", kids)
DL(kids) == El("DL", "", kids)
P == El("P", "", <<>>)

\* the terms of the list below the heading "Work"
Docs(d) ==
  CASE d = "one" -> <<P, DT(<<A("Docs", "u")>>)>>
    [] d = "bare" -> <<DT(<<El("A", "Docs ", <<>>)>>)>>
    [] d = "deep" -> <<DT(<<H3("a")>>), DL(<<DT(<<A("Docs", "")>>)>>)>>
    [] d = "none" -> <<P>>

\* the term with the heading "Work": its list among its children, or as its
\* next sibling, or missing; with a link of its own next to the heading; or
\* no such term
Work(w, d) ==
  CASE w = "child" -> <<DT(<<H3("Work"), DL(Docs(d)), P>>)>>
    [] w = "sibling" -> <<DT(<<H3(" Work ")>>), DL(Docs(d))>>
    [] w = "alone" -> <<DT(<<H3("Work")>>)>>
    [] w = "both" -> <<DT(<<H3("Work"), A("b", "v"), DL(Docs(d))>>)>>
    [] w = "absent" -> <<>>

\* what follows it in the root list
After(n) ==
  CASE n = "link" -> <<DT(<<A("b", "v")>>)>>
    [] n = "list" -> <<DL(<<DT(<<A("b", "v")>>)>>), DT(<<P>>)>>
    [] n = "end" -> <<P>>

\* the document: the root list below the heading of the page, or a page
\* without a list
Page(root, terms) ==
  IF root THEN <<El("H1", "Bookmarks", <<>>), DL(<<P>> \o terms)>>
  ELSE <<El("H1", "Bookmarks", <<>>), DT(terms)>>

HtmlFiles ==
  {[name |-> f, body |-> Page(root, Work(w, d) \o After(n))] :
     f \in DOMAIN Titles, root \in BOOLEAN,
     w \in {"child", "sibling", "alone", "both", "absent"},
     d \in {"one", "bare", "deep", "none"},
     n \in {"link", "list", "end"}}

\* a fresh install on the development page and a bookmark file to import
InitHtml ==
  /\ heap = EmptyHeap
  /\ boxes = 1
  /\ expandedSpaceId = Null
  /\ timeoutId = 0
  /\ burst = 0
  /\ nextId = 0
  /\ isSyncing = FALSE
  /\ passes = <<>>
  /\ dels = <<>>
  /\ host = [n \in HostIds |-> NoNode]
  /\ nextChromeId = BOOKMARKS_BAR_ID
  /\ events = <<>>
  /\ uiReady = TRUE
  /\ edits = ImportEdits
  /\ lastPass = <<>>
  /\ tampered = FALSE
  /\ bookmarks = FALSE
  /\ jsonContent = NoContent
  /\ html \in HtmlFiles
  /\ stored = NoStore
  /\ io = <<>>

NextHtml ==
  \/ handleHtmlImport
  \/ SaveReload

SpecHtml == InitHtml /\ [][NextHtml]_vars

\* ------------------------------------------- storage.js: the storage area
\* the properties migrateData removes from the space records
Deprecated == {"x", "y", "width", "height", "collapsed"}

\* migrateData, `needsSave`: a space record had one of the properties
needsSave(doc) == migrateData(doc) # doc

\* loadData() as the first await of saveBoxes / saveExpandedSpaceId: the
\* document read (and migrated)
Read(st) == [st EXCEPT !.doc = migrateData(st.doc)]

\* `data.boxes = boxes` / `data.expandedSpaceId = expandedSpaceId`
Written(call, data, h) ==
  IF call.op = "saveBoxes" THEN [data EXCEPT !.doc = TreeOf(h, call.bx)]
  ELSE [data EXCEPT !.expandedSpaceId = call.exp]

\* the writes that follow a read: loadData's own when needsSave, then the
\* caller's saveData(data)
WriteBack(st) == IF needsSave(st.doc) THEN <<SetCall(Read(st))>> ELSE <<>>

\* the storage area serves the request at the head of its queue.  A read
\* calls back into loadData and its caller, which asks for the write at once:
\* the value is serialised at that call.  A write replaces the document.
StorageStep ==
  /\ io # <<>>
  /\ IF Head(io).req = "get"
     THEN /\ io' = Tail(io) \o WriteBack(stored)
                     \o <<SetCall(Written(Head(io), Read(stored), heap))>>
          /\ stored' = stored
          /\ heap' = Collect(heap, {boxes} \cup UNION {PassAddrs(p) : p \in Range(passes)}
                                   \cup {d.box : d \in Range(dels)} \cup IoAddrs(Tail(io)))
     ELSE /\ io' = Tail(io)
          /\ stored' = Head(io).data
          /\ heap' = heap
  /\ UNCHANGED <<boxes, expandedSpaceId, timerVars, nextId, isSyncing, passes, dels,
                 hostVars, uiReady, edits, lastPass, tampered, envVars>>

\* init() on a page without chrome.bookmarks: loadData (which asks for the
\* write of the migrated document when needsSave), the two assignments, and
\* saveBoxes(boxes) when there is a space
init ==
  /\ ~uiReady
  /\ ~bookmarks
  /\ stored # NoStore
  /\ heap' = loadData(stored.doc)
  /\ boxes' = 1
  /\ expandedSpaceId' = IF stored.expandedSpaceId # Null THEN stored.expandedSpaceId
                        ELSE IF stored.doc.kids = <<>> THEN Null
                        ELSE stored.doc.kids[1].id
  /\ io' = io \o WriteBack(stored)
              \o (IF stored.doc.kids # <<>> THEN <<SaveBoxesCall(1)>> ELSE <<>>)
  /\ uiReady' = TRUE
  /\ UNCHANGED <<stored, timerVars, nextId, isSyncing, passes, dels, hostVars, edits,
                 lastPass, tampered, envVars>>

\* handlers.onSelectSpace(boxId)
onSelectSpace(boxId) ==
  /\ LocalSave(heap, FALSE, <<SaveExpandedCall(boxId)>>)
  /\ expandedSpaceId' = boxId
  /\ nextId' = nextId

\* the user closes the page once nothing is pending, and opens it again: the
\* module starts over with `boxes = []` and `expandedSpaceId = null`
Reopen ==
  /\ uiReady
  /\ edits > 0
  /\ io = <<>>
  /\ timeoutId = 0
  /\ passes = <<>>
  /\ dels = <<>>
  /\ heap' = EmptyHeap
  /\ boxes' = 1
  /\ expandedSpaceId' = Null
  /\ uiReady' = FALSE
  /\ burst' = 0
  /\ edits' = edits - 1
  /\ UNCHANGED <<timeoutId, nextId, isSyncing, passes, dels, hostVars, lastPass,
                 tampered, envVars, storeVars>>

\* ------------------------------------------- storage specification
\* a stored space: identity 1 holds a bookmark, identity 2 is empty
StoredBox(id) ==
  [createEmptyBox(id) EXCEPT
     !.kids = IF id = 1 THEN <<[createBookmark(3) EXCEPT !.kids = <<>>]>> ELSE <<>>]

\* a space record as an earlier version of the page stored it
Legacy(box, fields) ==
  [f \in DOMAIN box \cup fields |-> IF f \in DOMAIN box THEN box[f] ELSE 0]

\* what the page finds under STORAGE_KEY: no space, one or two; the first
\* with some of the deprecated properties, the second with `collapsed` or
\* none; expandedSpaceId not stored yet, or that of a stored space
StoredDocs ==
  {[doc |-> [EmptyHeap[1] EXCEPT !.kids = bs], expandedSpaceId |-> e] :
     bs \in {<<>>} \cup
            {<<Legacy(StoredBox(1), f1)>> :
               f1 \in {{}, {"x", "y", "width", "height"}, {"collapsed"}, {"y"},
                       Deprecated}} \cup
            {<<Legacy(StoredBox(1), f1), Legacy(StoredBox(2), f2)>> :
               f1 \in {{}, {"x", "y", "width", "height"}, {"collapsed"}, Deprecated},
               f2 \in {{}, {"collapsed"}}},
     e \in {Null, 1, 2}}

\* the page is being opened on a store an earlier session left
InitStore ==
  /\ heap = EmptyHeap
  /\ boxes = 1
  /\ expandedSpaceId = Null
  /\ timeoutId = 0
  /\ burst = 0
  /\ nextId = 3
  /\ isSyncing = FALSE
  /\ passes = <<>>
  /\ dels = <<>>
  /\ host = [n \in HostIds |-> NoNode]
  /\ nextChromeId = BOOKMARKS_BAR_ID
  /\ events = <<>>
  /\ uiReady = FALSE
  /\ edits = StoreEdits
  /\ lastPass = <<>>
  /\ tampered = FALSE
  /\ bookmarks = FALSE
  /\ jsonContent = NoContent
  /\ html = NoFile
  /\ stored \in {st \in StoredDocs :
                   st.expandedSpaceId \in {Null} \cup {st.doc.kids[k].id : k \in DOMAIN st.doc.kids}}
  /\ io = <<>>

NextStore ==
  \/ init
  \/ StorageStep
  \/ TimerFire
  \/ handleAddBox
  \/ \E b \in BoxIdArgs \ {Missing} : onSelectSpace(b)
  \/ \E b \in BoxIdArgs : onDelete(b)
  \/ Reopen

SpecStore == InitStore /\ [][NextStore]_vars

\* ------------------------------------------- durability specification
\* a mirrored document that the page has loaded from the store; the user
\* renames items, somebody removes nodes in the browser, passes do not
\* overlap, and the storage area serves its requests
InitDurable ==
  /\ LoadedPage(TRUE, DurableEdits)
  /\ stored = [doc |-> TreeOf(LoadedHeap(TRUE), 1), expandedSpaceId |-> 1]
  /\ io = <<>>

NextDurable ==
  \/ passes = <<>> /\ TimerFire
  \/ \E i \in 1..MaxPasses : PushResume(i)
  \/ Deliver
  \/ StorageStep
  \/ \E n \in HostIds : ExternalRemove(n)
  \/ \E b \in BoxIdArgs, i \in ItemIdArgs : onItemNameChange(b, i, "b")

SpecDurable == InitDurable /\ [][NextDurable]_vars

\* the timer fires and the storage area serves its queue as long as they
\* can; the host answers every call, so that no pass stays in flight for
\* ever, and every notification is delivered
SpecDurableFair ==
  /\ SpecDurable
  /\ WF_vars(passes = <<>> /\ TimerFire)
  /\ WF_vars(StorageStep)
  /\ []<>(passes = <<>>)
  /\ []<>(events = <<>>)

\* ------------------------------------------- two-way specification
\* a mirrored document whose host nodes are edited in the browser's own UI
\* (created, removed, retitled, moved) while the user renames items
InitPull == Loaded(TRUE, PullEdits)

NextPull ==
  \/ TimerFire
  \/ \E i \in 1..MaxPasses : PushResume(i)
  \/ Deliver
  \/ \E n \in HostIds : ExternalRemove(n)
  \/ \E par \in HostIds \cup {BOOKMARKS_BAR_ID}, url \in {"", "v"} :
        ExternalCreate(par, "b", url)
  \/ \E n \in HostIds, title \in {"", "b"}, url \in {"", "v"} :
        ExternalChange(n, title, url)
  \/ \E n \in HostIds, par \in HostIds \cup {BOOKMARKS_BAR_ID} : ExternalMove(n, par)
  \/ \E b \in BoxIdArgs, i \in ItemIdArgs : onItemNameChange(b, i, "b")
  \/ handleAddBox

SpecPull == InitPull /\ [][NextPull]_vars

\* ------------------------------------------- retry specification
\* a mirrored document whose host nodes somebody removes in the browser
\* while the user renames items: passes that fail, and the passes after them.
\* The user leaves the page alone while a pass runs, so no two passes overlap
InitRetry == Loaded(TRUE, RetryEdits)

NextRetry ==
  \/ passes = <<>> /\ TimerFire
  \/ \E i \in 1..MaxPasses : PushResume(i)
  \/ Deliver
  \/ \E n \in HostIds : ExternalRemove(n)
  \/ \E b \in BoxIdArgs, i \in ItemIdArgs : onItemNameChange(b, i, "b")

SpecRetry == InitRetry /\ [][NextRetry]_vars

\* ------------------------------------------------ reading a document
\* the entities of a document value in depth-first order, each with the
\* chromeId of the container it lies in (the bookmarks bar for a space)
RECURSIVE FlatSeq(_, _)
FlatSeq(ts, parentChromeId) ==
  IF ts = <<>> THEN <<>>
  ELSE LET t == Head(ts) IN
       <<[id |-> t.id, kind |-> t.kind, name |-> t.name, url |-> t.url,
          chromeId |-> t.chromeId, parentChromeId |-> parentChromeId]>>
       \o FlatSeq(t.kids, t.chromeId) \o FlatSeq(Tail(ts), parentChromeId)

Flat(doc) == FlatSeq(doc.kids, BOOKMARKS_BAR_ID)

Entities == Flat(TreeOf(heap, boxes))

Bindings(doc) == [i \in DOMAIN Flat(doc) |-> <<Flat(doc)[i].id, Flat(doc)[i].chromeId>>]

HostNodes(hst) == {n \in HostIds : hst[n].exists}

\* every entity is bound to a host node that exists and carries its content
Mirrored(snap) ==
  \A e \in Range(Flat(snap.doc)) :
    /\ HostHas(snap.host, e.chromeId)
    /\ snap.host[e.chromeId].title = e.name
    /\ e.kind = "bookmark" => snap.host[e.chromeId].url = e.url

\* every entity is bound to a host node that lies below the host node of the
\* entity's local container (the bookmarks bar for a space)
Isomorphic(snap) ==
  \A e \in Range(Flat(snap.doc)) :
    /\ HostHas(snap.host, e.chromeId)
    /\ snap.host[e.chromeId].parentId = e.parentChromeId

InFlight == passes # <<>> \/ dels # <<>>

\* the identities of the items (folders and bookmarks) of the document
ItemIdsOf(h, bx) ==
  {h[a].id : a \in Reach(h, {bx}, {}) \ ({bx} \cup Range(h[bx].kids))}

\* lookup by identity, as every handler does it: some space finds the item
Locatable(h, bx, id) ==
  \E b \in Range(h[bx].kids) : findItemById(h, h[b].kids, id) # Null

\* the item named by (sourceBoxId, itemId) is a folder and targetId names a
\* descendant of it
IntoDescendant(h, bx, sourceBoxId, itemId, targetId) ==
  LET sourceBox == findBox(h, bx, sourceBoxId)
      item == IF sourceBox = Null THEN Null
              ELSE findItemById(h, h[sourceBox].kids, itemId)
  IN /\ item # Null
     /\ h[item].kind = "folder"
     /\ isDescendant(h, item, targetId)

\* ... or the folder itself
IntoOwnSubtree(h, bx, sourceBoxId, itemId, targetId) ==
  LET sourceBox == findBox(h, bx, sourceBoxId)
      item == IF sourceBox = Null THEN Null
              ELSE findItemById(h, h[sourceBox].kids, itemId)
  IN /\ item # Null
     /\ h[item].kind = "folder"
     /\ (targetId = itemId \/ isDescendant(h, item, targetId))

\* the array slots of a heap: <<owner, index>>
Slots(h) == UNION {{<<o, k>> : k \in DOMAIN h[o].kids} : o \in Addr}

\* how many array slots hold the object at address a
RefCount(h, a) == Cardinality({sl \in Slots(h) : h[sl[1]].kids[sl[2]] = a})

\* no object lies below itself and no object is held by two array slots
Forest(h) ==
  /\ \A a \in Addr : h[a].kids # <<>> => a \notin Reach(h, Range(h[a].kids), {})
  /\ \A s1, s2 \in Slots(h) :
       s1 # s2 => h[s1[1]].kids[s1[2]] # h[s2[1]].kids[s2[2]]

\* ================================================================ claims

\* C1: whenever a push pass or an engine-issued host removal is in flight,
\* isSyncing is true (so the listeners ignore every notification delivered
\* in that interval), in every interleaving of passes and removals.
C1_FlagCoversEngineWork == InFlight => isSyncing

\* C2: push idempotence.  When a push pass has completed undisturbed and a
\* second pass runs with no local change and no host change in between (and
\* none while it runs), the second pass issues no create call, the number of
\* host nodes is unchanged, every binding is unchanged, and every space and
\* item is bound to one host node that exists.
C2_PushIdempotent ==
  (lastPass # <<>> /\ lastPass[1].solo /\ lastPass[1].quiet) =>
    /\ lastPass[1].creates = 0
    /\ Cardinality(HostNodes(lastPass[1].after.host))
         = Cardinality(HostNodes(lastPass[1].before.host))
    /\ Bindings(lastPass[1].after.doc) = Bindings(lastPass[1].before.doc)
    /\ \A e \in Range(Flat(lastPass[1].after.doc)) :
         HostHas(lastPass[1].after.host, e.chromeId)

\* a second pass has run right after a completed one, nothing in between
C2_SecondPassCompleted ==
  /\ lastPass # <<>>
  /\ lastPass[1].solo
  /\ lastPass[1].quiet
  /\ Flat(lastPass[1].after.doc) # <<>>

\* C3: after a push pass that completed (no create/update failure) with no
\* other flow acting meanwhile, every space and item of the document it
\* returned is bound to a host node that exists and whose title (and URL, for a
\* bookmark) equals the local title/name (and URL).
C3_PushMirrorsContent ==
  (lastPass # <<>> /\ lastPass[1].solo) => Mirrored(lastPass[1].after)

\* C4: after local mutations and a completed push pass, with no external host
\* change at any time, every space is bound to a host folder below the
\* bookmarks bar and the host node of every item is a child of the host node of
\* the item's current local parent.
C4_HostTreeIsomorphic ==
  (lastPass # <<>> /\ lastPass[1].solo /\ ~tampered) =>
    Isomorphic(lastPass[1].after)

\* C5: a move whose target folder is the moved folder or one of its
\* descendants, and a reorder whose target sibling is a descendant of the
\* moved folder, leaves the document exactly as it was.
C5_SelfContainmentRejected ==
  [][/\ \A s \in BoxIdArgs, i \in ItemIdArgs, t \in BoxIdArgs, par \in ItemIdArgs :
          (IntoOwnSubtree(heap, boxes, s, i, par) /\ onMoveItem(s, i, t, par))
            => TreeOf(heap', boxes') = TreeOf(heap, boxes)
     /\ \A s \in BoxIdArgs, i \in ItemIdArgs, t \in BoxIdArgs, x \in ItemIdArgs,
           pos \in Positions :
          (IntoDescendant(heap, boxes, s, i, x) /\ onReorderItem(s, i, t, x, pos))
            => TreeOf(heap', boxes') = TreeOf(heap, boxes)]_vars

\* C6: in every state reached by moves and reorders with arbitrary arguments
\* the document is a forest: no folder lies among its own descendants and every
\* item is held by exactly one container.  The same holds of the objects a
\* move or a reorder leaves behind, whatever its arguments: it never builds a
\* folder that contains itself, attached to the document or not.
C6_AlwaysForest ==
  /\ Forest(heap)
  /\ \A a \in Addr : heap[a].kind \in {"space", "folder", "bookmark"}
                       => RefCount(heap, a) = 1
  /\ \A s \in BoxIdArgs, i \in ItemIdArgs, t \in BoxIdArgs,
        par \in ItemIdArgs \cup {Null} :
       LET after == MoveItemHeap(heap, boxes, s, i, t, par).h
       IN after # heap => Forest(after)
  /\ \A s \in BoxIdArgs, i \in ItemIdArgs, t \in BoxIdArgs, x \in ItemIdArgs,
        pos \in Positions :
       LET after == ReorderItemHeap(heap, boxes, s, i, t, x, pos).h
       IN after # heap => Forest(after)

\* a move or a reorder has acted, and a reorder into the own subtree can be
\* asked for: some folder holds an item older than itself, and some folder
\* holds a folder
C6_MovedAndNested ==
  /\ \E a \in Addr : /\ heap[a].kind = "folder"
                     /\ \E k \in DOMAIN heap[a].kids :
                          heap[heap[a].kids[k]].id < heap[a].id
  /\ \E a \in Addr : /\ heap[a].kind = "folder"
                     /\ \E k \in DOMAIN heap[a].kids :
                          heap[heap[a].kids[k]].kind = "folder"

\* C7: identity stability.  No rename, move or reorder, whatever its
\* arguments, makes an item disappear: every item of the document before the
\* step is found by lookup of its identity after it.  (No step of the tree
\* specification deletes.)
C7_IdentityStable ==
  [][\A id \in ItemIdsOf(heap, boxes) : Locatable(heap', boxes', id)]_vars

\* C8: in every reachable state no two entities (spaces or items, across all
\* spaces) of the in-memory document have the same identity.
C8_UniqueIdentities ==
  \A i, j \in DOMAIN Entities : i # j => Entities[i].id # Entities[j].id

\* C9: in every reachable state at most one local entity carries a given
\* non-null chromeId.
C9_UniqueBindings ==
  \A i, j \in DOMAIN Entities :
    (i # j /\ Entities[i].chromeId # Null)
      => Entities[i].chromeId # Entities[j].chromeId

\* C10: at most one push pass is in flight at any time.
C10_OnePassInFlight == Len(passes) <= 1

\* C11: debounce coalescing.  At most one debounce timer is pending at any
\* time, and one is pending exactly when save() has been called since the last
\* timer fired; a push pass starts only when the timer fires; the firing
\* consumes the whole burst of save() calls, starts exactly one pass, and that
\* pass starts from the document of the moment of firing.
C11_DebounceCoalesces ==
  [][/\ timeoutId' <= 1
     /\ (timeoutId' = 1) <=> (burst' > 0)
     /\ Len(passes') > Len(passes) => timeoutId' = timeoutId - 1
     /\ timeoutId' < timeoutId =>
          /\ timeoutId' = 0
          /\ burst' = 0
          /\ IF Len(passes') > Len(passes)
             THEN /\ Len(passes') = Len(passes) + 1
                  /\ passes'[Len(passes')].kind = "save"
                  /\ passes'[Len(passes')].before = Snapshot(heap, boxes, host)
             ELSE /\ lastPass' # <<>>
                  /\ lastPass'[1].kind = "save"
                  /\ lastPass'[1].before = Snapshot(heap, boxes, host)]_vars

\* both loaded items were renamed in one burst, and the only pass save() has
\* ever started began after the second rename
C11_BurstPushedOnce ==
  /\ Len(passes) = 1
  /\ passes[1].kind = "save"
  /\ lastPass # <<>>
  /\ lastPass[1].kind = "init"
  /\ ~tampered
  /\ Len(Flat(passes[1].before.doc)) = 3
  /\ \A e \in Range(Flat(passes[1].before.doc)) : e.kind # "space" => e.name = "b"

\* the host identity pass p has resolved for the container whose array its
\* k-th syncItemsToChrome call iterates, and that container
ResolvedParent(p, k) == IF k = 1 THEN p.chromeId ELSE p.frames[k - 1].chromeId

ContainerOf(p, k) == IF k = 1 THEN p.box ELSE p.frames[k - 1].item

\* nothing but push passes has touched the host store or removed an entity
OnlyPushed ==
  /\ ~tampered
  /\ dels = <<>>
  /\ {1, 2, 3} \subseteq {Entities[i].id : i \in DOMAIN Entities}

\* C12: parent-before-child.  While a pass has a host call pending for an item,
\* every container above the item (the space and each enclosing folder) has
\* its host identity resolved, the items are pushed below exactly that
\* identity, a create call carries it as parentId (the bookmarks bar for a
\* space), and, when nothing but push passes has touched the store, the
\* container's host node already exists.
C12_ParentBeforeChild ==
  \A i \in DOMAIN passes :
    LET p == passes[i]
        n == Len(p.frames)
    IN /\ (n = 0 /\ p.pending.op = "create") => p.pending.parentId = BOOKMARKS_BAR_ID
       /\ \A k \in 1..n :
            /\ ResolvedParent(p, k) # Null
            /\ p.frames[k].parentChromeId = ResolvedParent(p, k)
            /\ p.frames[k].arr = ContainerOf(p, k)
            /\ OnlyPushed => HostHas(host, ResolvedParent(p, k))
       /\ (n > 0 /\ p.pending.op = "create") =>
            p.pending.parentId = ResolvedParent(p, n)

\* a pass is about to create the node of an item that lies in a folder, below
\* the host identity it resolved for that folder
C12_ChildCreatePending ==
  \E i \in DOMAIN passes :
    /\ Len(passes[i].frames) = 2
    /\ passes[i].pending.op = "create"
    /\ passes[i].pending.parentId = passes[i].frames[1].chromeId

\* ------------------------------------------------------ notifications
\* a step in which the listeners are handed the notification at the head of
\* the queue while no push pass and no engine removal is in flight
Handled(type) ==
  /\ events # <<>>
  /\ events' = Tail(events)
  /\ Head(events).type = type
  /\ ~InFlight

Doc == TreeOf(heap, boxes)

BoundTo(chromeId, kinds) ==
  \E i \in DOMAIN Entities :
    Entities[i].chromeId = chromeId /\ Entities[i].kind \in kinds

\* the trees ts with `new` appended to the children of the container bound
\* to chromeId
RECURSIVE AppendUnder(_, _, _)
AppendUnder(ts, chromeId, new) ==
  [i \in DOMAIN ts |->
     IF ts[i].chromeId = chromeId /\ ts[i].kind \in {"space", "folder"}
     THEN [ts[i] EXCEPT !.kids = Append(@, new)]
     ELSE [ts[i] EXCEPT !.kids = AppendUnder(@, chromeId, new)]]

\* C13: a 'created' notification handled while no push is in flight appends
\* one new item (a bookmark when the node has a URL, else an empty folder)
\* with a fresh local identity, bound to the node's host identity, at the end
\* of the children of the space or folder bound to the node's host parent, and
\* changes nothing else; when no space or folder is bound to the host parent
\* the document is unchanged.
C13_CreatedAppends ==
  [][Handled("created") =>
       LET ev == Head(events)
           fresh == (1..MaxIds) \ {Entities[i].id : i \in DOMAIN Entities}
           newItem(id, exp) ==
             [kind |-> IF ev.url # "" THEN "bookmark" ELSE "folder", id |-> id,
              name |-> ev.title, url |-> ev.url, color |-> "", chromeId |-> ev.id,
              expanded |-> exp, kids |-> <<>>]
       IN /\ expandedSpaceId' = expandedSpaceId
          /\ IF BoundTo(ev.parentId, {"space", "folder"})
             THEN \E id \in fresh, exp \in BOOLEAN :
                    Doc' = [Doc EXCEPT !.kids = AppendUnder(@, ev.parentId, newItem(id, exp))]
             ELSE Doc' = Doc]_vars

\* a folder made in the browser inside the mirrored folder has been taken over
\* as the last child of the local folder
C13_FolderTakenOver ==
  \E i, j \in DOMAIN Entities :
    /\ Entities[i].kind = "folder" /\ Entities[i].id = 3
    /\ Entities[j].kind = "folder" /\ Entities[j].id = 4
    /\ Entities[j].parentChromeId = Entities[i].chromeId
    /\ Entities[j].chromeId \in HostNodes(host)
    /\ ~InFlight

\* the trees ts without the entities bound to chromeId (and their subtrees)
RECURSIVE Without(_, _)
Without(ts, chromeId) ==
  LET keep == SelectSeq(ts, LAMBDA t : t.chromeId # chromeId)
  IN [i \in DOMAIN keep |-> [keep[i] EXCEPT !.kids = Without(@, chromeId)]]

\* C14: a 'removed' notification handled while no push is in flight removes
\* the space bound to the notified identity (the other spaces stay as they
\* are, and expandedSpaceId becomes the first remaining space, or null, when
\* the removed space was the expanded one), or removes exactly the bound item
\* with its subtree from its parent's children, or changes nothing when the
\* identity is bound to nothing.
C14_RemovedRemoves ==
  [][Handled("removed") =>
       LET ev == Head(events)
           gone == {Doc.kids[i].id : i \in {j \in DOMAIN Doc.kids :
                                              Doc.kids[j].chromeId = ev.id}}
           rest == SelectSeq(Doc.kids, LAMBDA t : t.chromeId # ev.id)
       IN IF BoundTo(ev.id, {"space"})
          THEN /\ Doc' = [Doc EXCEPT !.kids = rest]
               /\ expandedSpaceId' =
                    IF expandedSpaceId \in gone
                    THEN IF rest = <<>> THEN Null ELSE rest[1].id
                    ELSE expandedSpaceId
          ELSE /\ expandedSpaceId' = expandedSpaceId
               /\ IF BoundTo(ev.id, {"folder", "bookmark"})
                  THEN Doc' = [Doc EXCEPT !.kids = Without(@, ev.id)]
                  ELSE Doc' = Doc]_vars

\* the second, expanded space was removed in the browser: the first space is
\* left as it was and is the expanded one now
C14_ExpandedSpaceRemoved ==
  /\ nextId = 4
  /\ ~InFlight
  /\ tampered
  /\ events = <<>>
  /\ Len(Doc.kids) = 1
  /\ Len(Doc.kids[1].kids) = 2
  /\ Doc.kids[1].id = 1
  /\ expandedSpaceId = 1
  /\ ~HostHas(host, 5)

\* the trees ts with the entities bound to chromeId given the title, and the
\* bookmarks among them the URL, of a notification
RECURSIVE Retitled(_, _, _, _)
Retitled(ts, chromeId, title, url) ==
  [i \in DOMAIN ts |->
     LET t == [ts[i] EXCEPT !.kids = Retitled(@, chromeId, title, url)]
     IN IF t.chromeId # chromeId THEN t
        ELSE [t EXCEPT !.name = title,
                       !.url = IF t.kind = "bookmark" THEN url ELSE @]]

\* C15: a 'changed' notification handled while no push is in flight sets the
\* title of the bound space, or the name of the bound item, to the notified
\* title, whatever it is (the empty string included), sets the URL of a bound
\* bookmark to the notified URL, and changes nothing else; when the identity
\* is bound to nothing the document is unchanged.
C15_ChangedSetsTitle ==
  [][Handled("changed") =>
       LET ev == Head(events)
       IN /\ expandedSpaceId' = expandedSpaceId
          /\ Doc' = [Doc EXCEPT !.kids = Retitled(@, ev.id, ev.title, ev.url)]]_vars

IdsOf(doc) == {Flat(doc)[i].id : i \in DOMAIN Flat(doc)}

\* the host call deleteItem / deleteSpace has to issue for the entity `id`
RemovalOf(id) ==
  LET e == CHOOSE e \in Range(Entities) : e.id = id
  IN Call(IF e.kind = "bookmark" THEN "remove" ELSE "removeTree",
          e.chromeId, 0, "", "")

\* C17: deleteItem and deleteSpace of a bound entity.  The step that starts
\* the delete issues the host removal (remove for a bookmark, removeTree for
\* a folder or a space) and leaves the document and the host store as they
\* are; the step in which the removal settles applies it to the host store
\* and only then takes the entity out of the document, whether the host call
\* succeeded or failed.  The local removal is that of a space from the space
\* list, or of an item from the space object the handler looked up: it is
\* read off the document when that object is still the document's and the
\* identity occurs once in it.
C17_HostRemovalFirst ==
  [][/\ Len(dels') > Len(dels) =>
          /\ dels' = Append(dels, dels'[Len(dels')])
          /\ dels'[Len(dels')].id \in IdsOf(Doc)
          /\ dels'[Len(dels')].pending = RemovalOf(dels'[Len(dels')].id)
          /\ dels'[Len(dels')].pending.id # Null
          /\ Doc' = Doc
          /\ expandedSpaceId' = expandedSpaceId
          /\ host' = host
     /\ Len(dels') < Len(dels) =>
          \E i \in DOMAIN dels :
            /\ dels' = DropAt(dels, i)
            /\ host' = HostExec(host, nextChromeId, dels[i].pending).host
            /\ ~HostHas(host', dels[i].pending.id)
            /\ (\/ dels[i].kind = "space"
                \/ /\ dels[i].box \in Range(heap'[boxes'].kids)
                   /\ Cardinality({k \in DOMAIN Entities :
                                     Entities[k].id = dels[i].id}) <= 1)
                 => dels[i].id \notin IdsOf(Doc')]_vars

\* the bookmark was deleted: its node was removed by the engine and it is no
\* longer in the document, the folder beside it is untouched
C17_ItemDeletedBothSides ==
  /\ ~tampered
  /\ dels = <<>>
  /\ passes = <<>>
  /\ ~HostHas(host, 3)
  /\ HostHas(host, 4)
  /\ IdsOf(Doc) = {1, 3}

\* the host folder the document's space was first mirrored in (node 2) has
\* existed and was removed by the engine: deleteSpace is the only engine flow
\* that removes a space folder
SpaceDeleted ==
  /\ ~tampered
  /\ nextChromeId >= 2
  /\ ~HostHas(host, 2)

\* C18: once deleteSpace of a bound space has completed and every pending or
\* running push pass has finished, the host store holds no folder for the
\* space and none of its mirrored descendants, however the delete was
\* interleaved with a push pass.
C18_DeletedSpaceStaysDeleted ==
  (SpaceDeleted /\ ~InFlight /\ timeoutId = 0) => HostNodes(host) = {}

\* ----------------------------------------------------------- reorder
\* every entity of the trees ts, as a tree
RECURSIVE Nodes(_)
Nodes(ts) ==
  UNION {{ts[i]} \cup Nodes(ts[i].kids) : i \in DOMAIN ts}

NodeIds(ts) == {t.id : t \in Nodes(ts)}

\* the trees ts without the entity `id` (and its subtree)
RECURSIVE WithoutId(_, _)
WithoutId(ts, id) ==
  LET keep == SelectSeq(ts, LAMBDA t : t.id # id)
  IN [i \in DOMAIN keep |-> [keep[i] EXCEPT !.kids = WithoutId(@, id)]]

\* the trees ts with `new` put immediately before or after the entity `id`
RECURSIVE Beside(_, _, _, _)
Beside(ts, id, position, new) ==
  LET hits == {k \in DOMAIN ts : ts[k].id = id} IN
  IF hits # {}
  THEN LET k == IF position = "after" THEN Min(hits) ELSE Min(hits) - 1
       IN SubSeq(ts, 1, k) \o <<new>> \o SubSeq(ts, k + 1, Len(ts))
  ELSE [i \in DOMAIN ts |-> [ts[i] EXCEPT !.kids = Beside(@, id, position, new)]]

\* the item lies in the space sourceBoxId, the target in the space
\* targetBoxId, they differ and the target is not inside the item
Reorderable(sourceBoxId, itemId, targetBoxId, targetItemId) ==
  /\ itemId # targetItemId
  /\ \E i, j \in DOMAIN Doc.kids :
       /\ Doc.kids[i].id = sourceBoxId
       /\ Doc.kids[j].id = targetBoxId
       /\ itemId \in NodeIds(Doc.kids[i].kids)
       /\ targetItemId \in NodeIds(Doc.kids[j].kids)
  /\ \A t \in Nodes(Doc.kids) : t.id = itemId => targetItemId \notin NodeIds(t.kids)

\* C19: reorder(item, target, position) with item and target present and
\* different, the target not inside the item, saves and leaves the document
\* as it was except that the item (with its subtree) lies immediately before
\* or after the target in the target's array; storing that document and
\* reading it back gives the same document, in the same order.
C19_ReorderPlacesBeside ==
  \A s \in BoxIdArgs, i \in ItemIdArgs, t \in BoxIdArgs, x \in ItemIdArgs :
    Reorderable(s, i, t, x) =>
      \A pos \in Positions :
        LET r == ReorderItemHeap(heap, boxes, s, i, t, x, pos)
            item == CHOOSE n \in Nodes(Doc.kids) : n.id = i
            placed == [Doc EXCEPT !.kids = Beside(WithoutId(@, i), x, pos, item)]
        IN /\ r.saved
           /\ TreeOf(r.h, boxes) = placed
           /\ TreeOf(loadData(TreeOf(r.h, boxes)), 1) = placed

\* [A, B, C] after reorder(C, A, before), stored and read back: [C, A, B]
C19_LastBeforeFirst ==
  /\ edits = 0
  /\ timeoutId = 0
  /\ Len(Doc.kids) = 1
  /\ [i \in DOMAIN Doc.kids[1].kids |-> Doc.kids[1].kids[i].id] = <<4, 2, 3>>

\* ---------------------------------------------------------- no-ops
IsSpace(boxId) == \E i \in DOMAIN Doc.kids : Doc.kids[i].id = boxId

\* itemId names an item of one of the `kinds` in the space boxId
IsItem(boxId, itemId, kinds) ==
  \E i \in DOMAIN Doc.kids :
    /\ Doc.kids[i].id = boxId
    /\ \E n \in Nodes(Doc.kids[i].kids) : n.id = itemId /\ n.kind \in kinds

AnyItem == {"folder", "bookmark"}

\* parentId names neither the space itself (null) nor a folder of it
BadParent(boxId, parentId) ==
  ~IsSpace(boxId) \/ (parentId # Null /\ ~IsItem(boxId, parentId, {"folder"}))

SameDocument == Doc' = Doc /\ expandedSpaceId' = expandedSpaceId

\* C20: an intent whose space, item, target folder or target sibling does not
\* resolve, or resolves to the wrong variant (setUrl on a folder,
\* toggleExpanded on a bookmark, add or move below a bookmark), leaves the
\* whole document unchanged; a move whose target folder is not found leaves
\* the item where it was.
C20_UnresolvedIsNoOp ==
  [][\A b \in BoxIdArgs, t \in BoxIdArgs, i \in ItemIdArgs,
        x \in ItemIdArgs \cup {Null} :
       /\ (onAddFolder(b, x) /\ BadParent(b, x)) => SameDocument
       /\ (onAddBookmark(b, x) /\ BadParent(b, x)) => SameDocument
       /\ (onTitleChange(b, "b") /\ ~IsSpace(b)) => SameDocument
       /\ (onColorChange(b, "blue") /\ ~IsSpace(b)) => SameDocument
       /\ (onItemNameChange(b, i, "b") /\ ~IsItem(b, i, AnyItem)) => SameDocument
       /\ (onItemUrlChange(b, i, "v") /\ ~IsItem(b, i, {"bookmark"})) => SameDocument
       /\ (onToggleExpand(b, i) /\ ~IsItem(b, i, {"folder"})) => SameDocument
       /\ (onDeleteItem(b, i) /\ ~IsItem(b, i, AnyItem)) => SameDocument
       /\ (onDelete(b) /\ ~IsSpace(b)) => SameDocument
       /\ (onMoveItem(b, i, t, x) /\ (~IsItem(b, i, AnyItem) \/ BadParent(t, x)))
            => SameDocument
       /\ (x # Null /\ onReorderItem(b, i, t, x, "before")
             /\ (~IsItem(b, i, AnyItem) \/ ~IsItem(t, x, AnyItem))) => SameDocument
       /\ (x # Null /\ onReorderItem(b, i, t, x, "after")
             /\ (~IsItem(b, i, AnyItem) \/ ~IsItem(t, x, AnyItem))) => SameDocument]_vars

\* ------------------------------------------------ what a pass returns
\* the trees ts without their host bindings
RECURSIVE Unbound(_)
Unbound(ts) ==
  [i \in DOMAIN ts |-> [ts[i] EXCEPT !.chromeId = Null, !.kids = Unbound(@)]]

\* a step in which `boxes = await syncAllSpacesToChrome(boxes)` assigns
PassReturns ==
  /\ boxes' # boxes
  /\ Len(passes') < Len(passes) \/ timeoutId' < timeoutId

\* C21: a push pass changes only host bindings.  When a pass returns, the
\* document it puts in place has the same spaces in the same order and, in
\* every space and folder, the same items in the same order with the same
\* identities, names, URLs and expanded flags as its input, read either as
\* the document the pass was called with or as that document at the moment
\* the pass returns; only chromeId fields differ.
C21_PassChangesOnlyBindings ==
  [][PassReturns =>
       /\ lastPass' # <<>>
       /\ \/ Unbound(Doc'.kids) = Unbound(lastPass'[1].before.doc.kids)
          \/ Unbound(Doc'.kids) = Unbound(Doc.kids)]_vars

\* a step in which pass i is resumed with the failure of its pending create
\* or update
PassFails(i) ==
  /\ i \in DOMAIN passes
  /\ passes[i].pending.op \in {"create", "update"}
  /\ ~HostExec(host, nextChromeId, passes[i].pending).ok
  /\ passes' = Disturb(DropAt(passes, i))
  /\ dels' = dels

\* C22: when a create or update call of a push pass fails, the pass stops
\* there (it is no longer in flight and nothing replaces the document), the
\* host store keeps what the pass pushed before, the document is as it was,
\* and isSyncing is false afterwards.
C22_FailedPassStops ==
  [][\A i \in 1..MaxPasses :
       PassFails(i) =>
         /\ host' = host
         /\ Doc' = Doc
         /\ boxes' = boxes
         /\ expandedSpaceId' = expandedSpaceId
         /\ lastPass' = lastPass
         /\ ~isSyncing']_vars

\* the first pass of a mirrored document failed at the update of the
\* bookmark, whose node had just been removed in the browser: the space's
\* folder keeps the update it got, the document is the loaded one
C22_FirstPassFailed ==
  /\ passes = <<>>
  /\ lastPass = <<>>
  /\ ~uiReady
  /\ ~isSyncing
  /\ HostHas(host, 2)
  /\ ~HostHas(host, 3)
  /\ Doc = TreeOf(LoadedHeap(TRUE), 1)

SaveStores == ~bookmarks /\ timeoutId > 0 /\ timeoutId' = 0

RECURSIVE WithChild(_, _, _)
WithChild(ts, id, new) ==
  [i \in DOMAIN ts |->
     IF ts[i].id = id
     THEN [ts[i] EXCEPT !.kids = Append(@, new),
                        !.expanded = IF ts[i].kind = "folder" THEN TRUE ELSE @]
     ELSE [ts[i] EXCEPT !.kids = WithChild(@, id, new)]]

\* what createFolder() / createBookmark() return for the identity `id`
Created(kind, id) == IF kind = "folder" THEN createFolder(id) ELSE createBookmark(id)

\* C24: addFolder / addBookmark in a space that exists, without a parent or
\* with a parent that is a folder of that space: the document afterwards is
\* the document before with one new item, of an identity no entity had, at the
\* end of the space's items or of the folder's children, the folder expanded;
\* nothing else differs, and the save is pending.
C24_AddAppends ==
  [][\A kind \in AnyItem, b \in BoxIdArgs, p \in ItemIdArgs \cup {Null} :
       (AddItem(kind, b, p) /\ IsSpace(b) /\ (p = Null \/ IsItem(b, p, {"folder"})))
       => /\ nextId' \notin NodeIds(Doc.kids)
          /\ Doc' = [Doc EXCEPT !.kids =
                       WithChild(@, IF p = Null THEN b ELSE p, Created(kind, nextId'))]
          /\ expandedSpaceId' = expandedSpaceId
          /\ timeoutId' > 0]_vars

\* a bookmark was added to a collapsed folder that already had a child: the
\* folder is expanded and the bookmark is its last child
C24_LastChildOfExpanded ==
  /\ Len(Doc.kids) = 1 /\ Len(Doc.kids[1].kids) = 1
  /\ LET f == Doc.kids[1].kids[1] IN
     /\ f.kind = "folder" /\ f.expanded /\ f.id = 2
     /\ Len(f.kids) = 2 /\ f.kids[1].id = 3 /\ f.kids[2].id = 4
     /\ f.kids[2].kind = "bookmark"
  /\ edits = 0

\* ---------------------------------------------------------- import
\* every record of the export with the date it counts with: the entries of
\* the sync-state and sidebar lists with their own date (0 when they have
\* none), the items of the containers with the maximum
Records(content) ==
  {[item |-> e.value, date |-> e.lastChangeDate] :
     e \in Range(content.sync) \cup Range(content.sidebar)}
  \cup UNION {{[item |-> i, date |-> MAX_SAFE_INTEGER] : i \in Range(c.items)} :
               c \in Range(content.containers)}

\* the reduced item map parseArcJson works with
Reduced == parseArcJson(jsonContent, nextId).m

\* C25: every identity that occurs in an item source of the export has
\* exactly one record in the reduced item map, and it is a record of that
\* identity with the highest date among all its records, a container's item
\* counting as the maximum and a record without a date as the lowest (so
\* that it is kept when it is the only one).
C25_TimestampWins ==
  /\ \A i, j \in DOMAIN Reduced.keys : Reduced.keys[i] = Reduced.keys[j] => i = j
  /\ \A r \in Records(jsonContent) :
       /\ r.item.id \in Range(Reduced.keys)
       /\ \E w \in Records(jsonContent) :
            /\ w.item = Reduced.get[r.item.id]
            /\ \A o \in Records(jsonContent) :
                 o.item.id = r.item.id => o.date <= w.date

\* trees without their identities
RECURSIVE Shapes(_)
Shapes(ts) ==
  [i \in DOMAIN ts |-> [kind |-> ts[i].kind, name |-> ts[i].name, url |-> ts[i].url,
                        kids |-> Shapes(ts[i].kids)]]

\* the nodes the identities `ids` stand for, in the order of `ids`: one for
\* each identity that has a record which is not dropped, a folder's children
\* being the nodes of its child-identity list
RECURSIVE Listed(_, _)
Listed(m, ids) ==
  IF ids = <<>> THEN <<>>
  ELSE LET id == Head(ids)
           deep == buildArcNode(m.get[id], m, 0).node
       IN (IF id \notin Range(m.keys) \/ deep = NoTree THEN <<>>
           ELSE <<[kind |-> deep.kind, name |-> deep.name, url |-> deep.url,
                   kids |-> Listed(m, m.get[id].childrenIds)]>>)
          \o Listed(m, Tail(ids))

\* the sequence s without the later occurrences of its elements
RECURSIVE Distinct(_)
Distinct(s) ==
  IF s = <<>> THEN <<>>
  ELSE LET front == Distinct(SubSeq(s, 1, Len(s) - 1)) IN
       IF s[Len(s)] \in Range(front) THEN front ELSE Append(front, s[Len(s)])

\* the child-identity lists of the root containers, one after the other
RECURSIVE RootLists(_, _)
RootLists(m, containerIds) ==
  IF containerIds = <<>> THEN <<>>
  ELSE (IF Head(containerIds) \in Range(m.keys)
        THEN m.get[Head(containerIds)].childrenIds ELSE <<>>)
       \o RootLists(m, Tail(containerIds))

SpaceEntries(content) ==
  UNION {Range(c.spaces) : c \in {x \in Range(content.containers) : x.hasSpaces}}

ContainerIds(spaceEntry) == spaceEntry.containerIDs \o spaceEntry.newContainerIDs

Unlisted(m, containerId) ==
  containerId \notin Range(m.keys) \/ m.get[containerId].childrenIds = <<>>

\* C27: for every space and every root container of it without a
\* child-identity list, every item of the reduced map whose parentID names
\* that container (and which is not dropped) is among the items built for
\* the space, whether or not another root container of the space has a list.
C27_FallbackPerContainer ==
  LET m == Reduced IN
  \A e \in SpaceEntries(jsonContent) :
    LET built == Shapes(buildArcItemTree(m, ContainerIds(e), nextId).result) IN
    \A c \in Range(ContainerIds(e)) :
      Unlisted(m, c) =>
        \A id \in Range(m.keys) :
          (m.get[id].parentID = c /\ Listed(m, <<id>>) # <<>>)
            => Listed(m, <<id>>)[1] \in Range(built)

\* what the rule of C28 makes of the item: `folderToo` tells whether an item
\* that carries data.tab can be a folder
Classified(item, m, folderToo) ==
  LET node == buildArcNode(item, m, nextId).node IN
  IF item.tab /\ item.savedURL # ""
  THEN /\ node # NoTree
       /\ node.kind = "bookmark" /\ node.url = item.savedURL /\ node.kids = <<>>
       /\ node.name = IF item.title # "" THEN item.title
                      ELSE IF item.savedTitle # "" THEN item.savedTitle
                      ELSE "Untitled"
  ELSE IF (item.title # "" \/ item.childrenIds # <<>>) /\ (folderToo \/ ~item.tab)
  THEN /\ node # NoTree
       /\ node.kind = "folder"
       /\ Shapes(node.kids) = Listed(m, item.childrenIds)
  ELSE node = NoTree

\* C28 as stated: an item of the reduced map with saved-tab data and a URL
\* becomes a bookmark named by its title, else its saved title, else
\* "Untitled"; any other item with a title or a non-empty child-identity list
\* becomes a folder whose children are the nodes of that list; every other
\* item gives no node.
C28_Classified ==
  LET m == Reduced IN \A id \in Range(m.keys) : Classified(m.get[id], m, TRUE)

\* C28, amended: as above, but a folder is made only of an item that carries
\* no saved-tab data at all; an item with tab data and no URL gives no node,
\* titled or not.
C28_ClassifiedTabless ==
  LET m == Reduced IN \A id \in Range(m.keys) : Classified(m.get[id], m, FALSE)

\* imported: the list <<a, b>> where b is titled and carries tab data without
\* a URL; the space has the bookmark a and nothing for b
C28_TitledTabDropped ==
  /\ ItemB("tab") \in Range(jsonContent.containers[2].items)
  /\ "p" \in Range(Reduced.keys) /\ Reduced.get["p"].childrenIds = <<"a", "b">>
  /\ Len(Doc.kids) = 1
  /\ Shapes(Doc.kids[1].kids) =
       <<[kind |-> "bookmark", name |-> "old", url |-> "u", kids |-> <<>>]>>

\* the identities of the trees ts, one entry for every space and item
RECURSIVE IdSeq(_)
IdSeq(ts) ==
  IF ts = <<>> THEN <<>>
  ELSE <<Head(ts).id>> \o IdSeq(Head(ts).kids) \o IdSeq(Tail(ts))

AllDifferent(s) == \A i, j \in DOMAIN s : s[i] = s[j] => i = j

\* handleArcImport ran on a document that holds as many spaces as the file
\* has: in the import specification, where every import adds that many, these
\* are the spaces of one earlier import of the same file
ImportedAgain ==
  /\ edits' = edits - 1
  /\ Doc.kids # <<>>
  /\ Len(Doc.kids) = Len(parseArcJson(jsonContent, nextId).spaces)

C30_NoDuplicateSpaces ==
  \A i, j \in DOMAIN Doc.kids :
    Shapes(<<Doc.kids[i]>>) = Shapes(<<Doc.kids[j]>>) => i = j
\* ------------------------------------------- mutations and the push pass
\* C34: no mutation is lost to a concurrent push.  When a pass returns, the
\* document it puts in place differs from the document of that moment, to
\* which every mutation made during the pass was applied, in host bindings
\* only: the same spaces, items, names and URLs in the same order.
C34_MutationSurvivesPass ==
  [][PassReturns => Unbound(Doc'.kids) = Unbound(Doc.kids)]_vars

\* ------------------------------------------- the pass after a failed pass
\* two host nodes that mirror the same entity: same container, title and URL
Twins(hst) ==
  {pair \in HostNodes(hst) \X HostNodes(hst) :
     /\ pair[1] < pair[2]
     /\ hst[pair[1]].parentId = hst[pair[2]].parentId
     /\ hst[pair[1]].title = hst[pair[2]].title
     /\ hst[pair[1]].url = hst[pair[2]].url}

\* C36: a pass aborted by a host failure causes no duplicates later.  The
\* passes after it create no second host node for an entity whose node the
\* aborted pass created: the host store never holds two nodes for the same
\* entity (a pass removes nothing, so two such nodes would be there when the
\* pass completes).
C36_NoSecondNode == Twins(host) = {}

\* ------------------------------------------- import: all or nothing
\* C31: import atomicity.  When parseArcJson throws (the text is not JSON,
\* or an exception is raised while the spaces and items are built) or
\* returns no spaces, handleArcImport leaves the document, expandedSpaceId
\* and the pending save as they are; otherwise the document is the old one
\* followed by one space for every parsed space, in parse order, and the
\* save is pending.  No step appends only some of the parsed spaces.
C31_ImportAtomic ==
  [][edits' = edits - 1 =>
       LET parsed == parseArcJson(jsonContent, nextId)
           n == Len(Doc.kids)
       IN IF parsed.thrown \/ parsed.spaces = <<>>
          THEN /\ Doc' = Doc
               /\ expandedSpaceId' = expandedSpaceId
               /\ timeoutId' = timeoutId
          ELSE /\ Len(Doc'.kids) = n + Len(parsed.spaces)
               /\ SubSeq(Doc'.kids, 1, n) = Doc.kids
               /\ \A k \in DOMAIN parsed.spaces :
                    /\ Doc'.kids[n + k].name = parsed.spaces[k].title
                    /\ Shapes(Doc'.kids[n + k].kids) = Shapes(parsed.spaces[k].items)
               /\ timeoutId' > 0]_vars

\* the import of an export whose second space entry is null was tried: the
\* first space had been built when the exception was raised, and the
\* document is still empty
C31_BuiltSpaceDropped ==
  /\ edits < ImportEdits
  /\ parseArcJson(jsonContent, nextId).thrown
  /\ parseArcJson(jsonContent, nextId).spaces # <<>>
  /\ Doc.kids = <<>>
  /\ expandedSpaceId = Null
  /\ timeoutId = 0

\* ------------------------------------------- import: the recursion ends
\* the items that lie below the items ids through child-identity lists
RECURSIVE Below(_, _, _)
Below(m, frontier, found) ==
  IF frontier = {} THEN found
  ELSE Below(m,
         UNION {Range(m.get[x].childrenIds) \cap Range(m.keys) : x \in frontier}
           \ (found \cup frontier),
         found \cup frontier)

\* no item is reachable from itself through child-identity lists
Acyclic(m) ==
  \A x \in Range(m.keys) :
    x \notin Below(m, Range(m.get[x].childrenIds) \cap Range(m.keys), {})

\* the items reachable from the root containers: what the containers list,
\* what names a container as its parent, and everything below these
Reachable(m, containerIds) ==
  Below(m,
        UNION {Range(m.get[c].childrenIds) \cap Range(m.keys) :
                 c \in Range(containerIds) \cap Range(m.keys)}
        \cup {x \in Range(m.keys) : m.get[x].parentID \in Range(containerIds)},
        {})

RECURSIVE Depth(_)
Depth(ts) ==
  IF ts = <<>> THEN 0
  ELSE LET deep == 1 + Depth(Head(ts).kids)
           wide == Depth(Tail(ts))
       IN IF deep > wide THEN deep ELSE wide

\* C39: for every export in which no item is reachable from itself through
\* child-identity lists, buildArcItemTree returns for every space (it does
\* not exhaust the call stack), the tree it returns is no deeper than the
\* export has items, and buildArcNode is called only for items reachable
\* from the space's root containers.
C39_AcyclicBuilds ==
  LET m == Reduced IN
  Acyclic(m) =>
    \A e \in SpaceEntries(jsonContent) :
      ~e.null =>
        LET built == buildArcItemTree(m, ContainerIds(e), 0) IN
        /\ ~built.thrown
        /\ built.seen \subseteq Reachable(m, ContainerIds(e))
        /\ Depth(built.result) <= Len(m.keys)

\* an export without a cycle whose folder holds two bookmarks was imported:
\* the space holds the folder and the folder its two children
C39_NestedImported ==
  /\ Acyclic(Reduced)
  /\ edits < ImportEdits
  /\ Len(Doc.kids) >= 1
  /\ \E k \in DOMAIN Doc.kids[1].kids :
       /\ Doc.kids[1].kids[k].kind = "folder"
       /\ Len(Doc.kids[1].kids[k].kids) = 2

\* ------------------------------------------- bookmark files
\* the lists of a document, in tree order
RECURSIVE Lists(_)
Lists(els) ==
  IF els = <<>> THEN <<>>
  ELSE (IF Head(els).tag = "DL" THEN <<Head(els)>> ELSE <<>>)
       \o Lists(Head(els).kids) \o Lists(Tail(els))

\* the child elements of a term that have the tag
Among(term, tag) == SelectSeq(term.kids, LAMBDA e : e.tag = tag)

\* the list of the term at position i of a list: the first list among the
\* term's children, else the list that is its next sibling, else none
ListOf(children, i) ==
  IF Among(children[i], "DL") # <<>> THEN Among(children[i], "DL")[1].kids
  ELSE IF i < Len(children) /\ children[i + 1].tag = "DL" THEN children[i + 1].kids
  ELSE <<>>

\* the forest of a list, in document order: a term with a heading is a folder
\* named by the heading's text without the blanks around it, over the forest
\* of its list; a term with a link and no heading is a bookmark named by the
\* link's text without the blanks around it
RECURSIVE TermForest(_, _)
TermForest(children, i) ==
  IF i > Len(children) THEN <<>>
  ELSE (IF children[i].tag # "DT" THEN <<>>
        ELSE IF Among(children[i], "H3") # <<>>
             THEN <<[kind |-> "folder", name |-> trim(Among(children[i], "H3")[1].text),
                     url |-> "", kids |-> TermForest(ListOf(children, i), 1)]>>
             ELSE IF Among(children[i], "A") # <<>>
                  THEN <<[kind |-> "bookmark", name |-> trim(Among(children[i], "A")[1].text),
                          url |-> hrefOf(Among(children[i], "A")[1]), kids |-> <<>>]>>
                  ELSE <<>>)
       \o TermForest(children, i + 1)

\* the forest as the statement has it: every term with a heading is a folder
\* named by the heading's text, every term with a link is a bookmark named
\* by the link's text
RECURSIVE TermForest_AsStated(_, _)
TermForest_AsStated(children, i) ==
  IF i > Len(children) THEN <<>>
  ELSE (IF children[i].tag = "DT" /\ Among(children[i], "H3") # <<>>
        THEN <<[kind |-> "folder", name |-> Among(children[i], "H3")[1].text,
                url |-> "", kids |-> TermForest_AsStated(ListOf(children, i), 1)]>>
        ELSE <<>>)
       \o (IF children[i].tag = "DT" /\ Among(children[i], "A") # <<>>
           THEN <<[kind |-> "bookmark", name |-> Among(children[i], "A")[1].text,
                   url |-> hrefOf(Among(children[i], "A")[1]), kids |-> <<>>]>>
           ELSE <<>>)
       \o TermForest_AsStated(children, i + 1)

\* one import of a file whose first list has the forest `forest`: nothing
\* happens if the forest is empty, else exactly one space is appended behind
\* the unchanged spaces, and its items are the forest
AppendsForest(forest) ==
  IF forest = <<>>
  THEN Doc' = Doc /\ expandedSpaceId' = expandedSpaceId
  ELSE /\ Len(Doc'.kids) = Len(Doc.kids) + 1
       /\ SubSeq(Doc'.kids, 1, Len(Doc.kids)) = Doc.kids
       /\ Shapes(Doc'.kids[Len(Doc'.kids)].kids) = forest
       /\ Doc'.kids[Len(Doc'.kids)].name = Titles[html.name]
       /\ expandedSpaceId' = Doc'.kids[Len(Doc'.kids)].id

\* the terms of the first list of the file
RootTerms == IF Lists(html.body) = <<>> THEN <<>> ELSE Lists(html.body)[1].kids

\* C32 (as stated): every term with a heading yields a folder named by the
\* heading's text, whose children are the parse of its nested list or of the
\* list that is its next sibling; every term with a link yields a bookmark
\* named by the link's text, url = href or ""; one import appends exactly one
\* space whose items are that forest.
C32_ForestAsStated ==
  [][edits' = edits - 1 => AppendsForest(TermForest_AsStated(RootTerms, 1))]_vars

\* C32 (amended): the same with names that are the texts without the blanks
\* around them, and with a term that holds a heading and a link yielding the
\* folder only.
C32_ForestImported ==
  [][edits' = edits - 1 => AppendsForest(TermForest(RootTerms, 1))]_vars

\* the file with the heading " Work " over the list with the link "Docs" was
\* imported: the space holds the folder "Work", which holds exactly the
\* bookmark "Docs"
C32_WorkDocsImported ==
  /\ edits < ImportEdits
  /\ DT(<<H3(" Work ")>>) \in Range(RootTerms)
  /\ Len(Doc.kids) >= 1
  /\ Shapes(Doc.kids[1].kids)[1] =
       [kind |-> "folder", name |-> "Work", url |-> "",
        kids |-> <<[kind |-> "bookmark", name |-> "Docs", url |-> "u", kids |-> <<>>]>>]

\* ------------------------------------------- the stored document
\* init() has just run: the step in which the page loads the document
PageLoads == ~uiReady /\ uiReady'

\* the writes among the requests q
Writes(q) == SelectSeq(q, LAMBDA c : c.req = "set")

\* C33: the document loadData returns has no space record with x, y, width,
\* height or collapsed; every other field of every space and the order of
\* the spaces are as stored; the cleaned document is written back exactly
\* when such a field was present, so a load of a clean store writes nothing
\* and returns the stored document.
C33_MigrationOnLoad ==
  [][PageLoads =>
       LET before == stored.doc.kids
           after == Doc'.kids
           dirty == \E b \in DOMAIN before : DOMAIN before[b] \cap Deprecated # {}
       IN /\ DOMAIN after = DOMAIN before
          /\ \A b \in DOMAIN after :
               /\ DOMAIN after[b] = DOMAIN before[b] \ Deprecated
               /\ \A f \in DOMAIN after[b] : after[b][f] = before[b][f]
          /\ dirty <=> Writes(io') # <<>>
          /\ dirty => Writes(io') = <<SetCall([stored EXCEPT !.doc.kids = after])>>
          /\ ~dirty => after = before]_vars

\* the page has loaded a store whose first space had `collapsed`: the space
\* it works on has not, and the write of the cleaned document is queued
C33_CleanedOnLoad ==
  /\ uiReady
  /\ stored.doc.kids # <<>>
  /\ "collapsed" \in DOMAIN stored.doc.kids[1]
  /\ "collapsed" \notin DOMAIN Doc.kids[1]
  /\ io # <<>>
  /\ Head(io).req = "set"
  /\ Head(io).data.doc.kids = Doc.kids

\* nothing is pending: no storage request, no debounce timer
Settled == uiReady /\ io = <<>> /\ timeoutId = 0 /\ passes = <<>> /\ dels = <<>>

\* C35: once all storage operations have completed, the stored document has
\* the latest space list and the latest expandedSpaceId (the one the page
\* holds, unless none was ever stored).
C35_BothStored ==
  Settled =>
    /\ stored.doc.kids = Doc.kids
    /\ stored.expandedSpaceId # Null => stored.expandedSpaceId = expandedSpaceId

\* C38: once the page is initialised, expandedSpaceId is null exactly when
\* the document has no space and is otherwise the identity of a space of the
\* document, also after the page was opened again on what it stored.
C38_ExpandedExists ==
  uiReady =>
    /\ expandedSpaceId = Null <=> Doc.kids = <<>>
    /\ expandedSpaceId # Null => \E k \in DOMAIN Doc.kids : Doc.kids[k].id = expandedSpaceId

\* C37: every local mutation is eventually durably saved: once the edits
\* have ended, the debounce window has elapsed and every pending operation
\* has finished, the stored space list is the space list of the page and
\* stays so, also when a host call fails during the push pass.
C37_EventuallySaved == <>[](stored.doc.kids = Doc.kids)

====
